---- MODULE Spec2Model ----
(***************************************************************************)
(* AUC Research Assistant: the multi-source retrieval pipeline.            *)
(*   - FederatedSearchService (federated_search_service.py): fan-out,      *)
(*     consolidation, duplicate removal, scoring, ordering, statistics     *)
(*   - DatabaseConnector.search_with_timeout (database_connectors/base.py) *)
(*   - EmbeddingClient.process_and_store_documents (embedding_client.py)   *)
(*   - the streaming orchestrators generate_openai_stream                  *)
(*     (chat_completions.py) and generate_stream (query.py)                *)
(* Strings are sequences of one-character strings, so that lower(),        *)
(* split(), join() and sorted() are computed as Python computes them.      *)
(***************************************************************************)
EXTENDS Integers, Sequences, FiniteSets, TLC

VARIABLES
    \* _remove_duplicates applied to a raw result set
    dRaw,       \* the raw result set (all_results)
    dOut,       \* the first application: [unique, removed]
    dSecond,    \* a second application to the same raw set
    dOwn,       \* an application to the first application's own output
    dpc         \* "raw", "merged", "second", "own"

VARIABLES
    \* one FederatedSearchService.search call
    aq,         \* the SearchQuery: [databases, max_results, semantic]
    apc,        \* "start", "gather", "done"
    aExp,       \* the QueryExpansion: None, or [queries |-> the number of
                \* expanded_queries[:3] that differ from the original query]
    aTasks,     \* search_tasks: one _search_database_with_expansion per database
    aInt,       \* the consolidation's lists: all_results, successful, failed
    aResp,      \* what the call gave its caller
    aOrder      \* the indices of the tasks in the order they completed

\* The Chroma collection of EmbeddingClient and the calls made on it.
VARIABLES
    sStore,     \* the chunks of the collection, in insertion order
    sLog        \* one record per process_and_store_documents call

\* One streaming request: generate_openai_stream or generate_stream.
VARIABLES
    gReq,       \* the request and the settings it runs under
    gpc,        \* the stage the generator is at; "closed" once it has ended
    gFrames,    \* the frames yielded so far
    gQueries,   \* database_queries: [n |-> how many, i |-> the next to search]
    gAll,       \* all_documents
    gUnique,    \* unique_documents
    gTop,       \* top_documents
    gEscaped,   \* an exception reached the generator's outer except
    gStages,    \* the steps entered, each with the frames yielded before its work
    gStopped    \* the client stopped consuming: None, or [frames, pc] as they were

\* The last similarity_search call on the collection.
VARIABLES
    sFound      \* [filter, k, ok, results], or None before the first call

\* Two coroutines of the one event loop, each calling
\* process_and_store_documents once.
VARIABLES
    cpc,        \* per coroutine: "idle", "looked" (existing hashes read), "done"
    cNew,       \* per coroutine: [docs, new]: its documents and its new_docs
    cLook,      \* per coroutine: whether vector_store.get() returned
    cIns        \* per coroutine: the doc_hash values of the chunks it added

\* The CohereReranker singleton.
VARIABLES
    rClient,    \* self.client is not None
    rInitial,   \* is_available() right after construction
    rCalls,     \* how often client.rerank was called
    rLast       \* the last rerank_documents call, or None

\* One search() call of a connector on the raw records its provider returned.
VARIABLES
    kRaw,       \* the provider's answer: [ok, records]
    kOut        \* what search() returned, or None before it has run

\* The connectors of the one FederatedSearchService and their health checks.
VARIABLES
    hConn,      \* per connector: [is_available, last_error, response_time_ms]
    hChecks,    \* per connector: the outcomes of its health checks, in order
    hReport     \* the last get_database_status() list, or None

\* The module-level instances of the process and the requests served.
VARIABLES
    iGlobals,   \* the module globals: the instance each one holds, 0 for None
    iMade,      \* per kind of object: how many were constructed
    iLog        \* per request served: the instances it used

\* One request to the /search endpoint.
VARIABLES
    eReq,       \* the query text: [len, stripped]
    eResp       \* the HTTP response, or None

\* One TokenBucketRateLimiter and the coroutines that call it.
VARIABLES
    lCfg,       \* the constructor's arguments: [rate, bucket], bucket 0 for None
    lLim,       \* the limiter: [tokens, last_refill]
    lNow,       \* time.time(), in seconds
    lCallers,   \* per caller: where it is, and what it was granted
    lAdded      \* the tokens all refills have added, in units

dedupVars == <<dRaw, dOut, dSecond, dOwn, dpc>>
aggVars == <<aq, apc, aExp, aTasks, aInt, aResp, aOrder>>

storeVars == <<sStore, sLog>>
streamVars == <<gReq, gpc, gFrames, gQueries, gAll, gUnique, gTop, gEscaped, gStages,
                gStopped>>
foundVars == <<sFound>>
concVars == <<cpc, cNew, cLook, cIns>>
rerankVars == <<rClient, rInitial, rCalls, rLast>>
connVars == <<kRaw, kOut>>
healthVars == <<hConn, hChecks, hReport>>
singleVars == <<iGlobals, iMade, iLog>>
endpointVars == <<eReq, eResp>>
limiterVars == <<lCfg, lLim, lNow, lCallers, lAdded>>
laterVars == <<connVars, healthVars, singleVars, endpointVars, limiterVars>>
outsideLimiter == <<dedupVars, aggVars, storeVars, streamVars, foundVars, concVars, rerankVars,
                    connVars, healthVars, singleVars, endpointVars>>
outsideDedup == <<aggVars, storeVars, streamVars, foundVars, concVars, rerankVars, laterVars>>
outsideAgg == <<dedupVars, storeVars, streamVars, foundVars, concVars, rerankVars, laterVars>>
outsideStore == <<dedupVars, aggVars, streamVars, foundVars, concVars, rerankVars, laterVars>>
outsideFound == <<dedupVars, aggVars, streamVars, storeVars, concVars, rerankVars, laterVars>>
outsideStream == <<dedupVars, aggVars, foundVars, concVars, rerankVars, laterVars>>
outsideConc == <<dedupVars, aggVars, streamVars, foundVars, rerankVars, laterVars>>
outsideRerank == <<dedupVars, aggVars, storeVars, streamVars, foundVars, concVars, laterVars>>
outsideConn == <<dedupVars, aggVars, storeVars, streamVars, foundVars, concVars, rerankVars,
                 healthVars, singleVars, endpointVars, limiterVars>>
outsideHealth == <<dedupVars, aggVars, storeVars, streamVars, foundVars, concVars, rerankVars,
                   connVars, singleVars, endpointVars, limiterVars>>
outsideSingle == <<dedupVars, aggVars, storeVars, streamVars, foundVars, concVars, rerankVars,
                   connVars, healthVars, endpointVars, limiterVars>>
outsideEndpoint == <<dedupVars, storeVars, streamVars, foundVars, concVars, rerankVars,
                     connVars, healthVars, singleVars, limiterVars>>
vars == <<dRaw, dOut, dSecond, dOwn, dpc, aq, apc, aExp, aTasks, aInt, aResp,
          aOrder, sStore, sLog, gReq, gpc, gFrames, gQueries, gAll, gUnique, gTop, gEscaped, gStages,
          gStopped, sFound, cpc, cNew, cLook, cIns, rClient, rInitial, rCalls, rLast,
          kRaw, kOut, hConn, hChecks, hReport, iGlobals, iMade, iLog, eReq, eResp,
          lCfg, lLim, lNow, lCallers, lAdded>>

\* Python's None.
None == [none |-> TRUE]

(***************************************************************************)
(* Text                                                                    *)
(***************************************************************************)

\* The characters used by the sample data, in code-point order.
Alphabet ==
    <<" ", ".", "/", "0", "1", "2", "A", "B", "D", "N", "O", "T", "_",
      "a", "b", "c", "d", "e", "f", "h", "n", "o", "p", "s", "t">>

Ord(c) == CHOOSE i \in 1..Len(Alphabet) : Alphabet[i] = c

\* str.lower() on one character.
LowerChar(c) ==
    CASE c = "A" -> "a"
      [] c = "B" -> "b"
      [] c = "D" -> "d"
      [] c = "N" -> "n"
      [] c = "O" -> "o"
      [] c = "T" -> "t"
      [] OTHER -> c

\* str.lower()
Lower(s) == [i \in 1..Len(s) |-> LowerChar(s[i])]

\* str.split(): cut at runs of white space, no empty words.
RECURSIVE SplitFrom(_, _, _)
SplitFrom(s, i, cur) ==
    IF i > Len(s)
    THEN IF cur = <<>> THEN <<>> ELSE <<cur>>
    ELSE IF s[i] = " "
         THEN (IF cur = <<>> THEN <<>> ELSE <<cur>>) \o SplitFrom(s, i + 1, <<>>)
         ELSE SplitFrom(s, i + 1, Append(cur, s[i]))

Split(s) == SplitFrom(s, 1, <<>>)

\* " ".join(words)
RECURSIVE Join(_)
Join(words) ==
    IF words = <<>> THEN <<>>
    ELSE IF Len(words) = 1 THEN words[1]
    ELSE words[1] \o <<" ">> \o Join(Tail(words))

\* Python's str < str: lexicographic on code points.
RECURSIVE StrLess(_, _)
StrLess(a, b) ==
    IF b = <<>> THEN FALSE
    ELSE IF a = <<>> THEN TRUE
    ELSE IF Ord(a[1]) # Ord(b[1]) THEN Ord(a[1]) < Ord(b[1])
    ELSE StrLess(Tail(a), Tail(b))

\* sorted(words): stable insertion into an ascending list.
RECURSIVE InsertWord(_, _)
InsertWord(w, sorted) ==
    IF sorted = <<>> THEN <<w>>
    ELSE IF StrLess(w, sorted[1]) THEN <<w>> \o sorted
    ELSE <<sorted[1]>> \o InsertWord(w, Tail(sorted))

RECURSIVE SortWords(_)
SortWords(words) ==
    IF words = <<>> THEN <<>>
    ELSE InsertWord(words[Len(words)], SortWords(SubSeq(words, 1, Len(words) - 1)))

NoneStr == <<>>

(***************************************************************************)
(* Sample search results (SearchResult records a connector can return)      *)
(***************************************************************************)

NoDate == -1

\* publication_date and "now" in days; ages of 100, 1000 and 4000 days.
NowDay == 365 * 60

Paper(t, d, day, oa, cites, abs) ==
    [title |-> t, doi |-> d, date |-> day, oa |-> oa, cites |-> cites, abstract |-> abs]

Catalog ==
    <<
      \* 1: "Deep Nets", doi 10.1/ab, recent, open access
      Paper(<<"D","e","e","p"," ","N","e","t","s">>, <<"1","0",".","1","/","a","b">>,
            NowDay - 100, TRUE, 0, <<"a","b">>),
      \* 2: "deep nets", doi 10.1/AB (the same DOI in another case), old
      Paper(<<"d","e","e","p"," ","n","e","t","s">>, <<"1","0",".","1","/","A","B">>,
            NowDay - 4000, FALSE, 100, <<"a","b">>),
      \* 3: "The Deep Nets", no DOI, undated
      Paper(<<"T","h","e"," ","D","e","e","p"," ","N","e","t","s">>, NoneStr,
            NoDate, FALSE, 0, <<"c">>),
      \* 4: "nets of deep", no DOI: the words of 3 in another order
      Paper(<<"n","e","t","s"," ","o","f"," ","d","e","e","p">>, NoneStr,
            NowDay - 1000, TRUE, 10, <<"c">>),
      \* 5: "deep deep nets", no DOI: the word set of 3, one word repeated
      Paper(<<"d","e","e","p"," ","d","e","e","p"," ","n","e","t","s">>, NoneStr,
            NowDay - 4000, FALSE, 0, <<>>),
      \* 6: "Of The", no DOI: no meaningful word
      Paper(<<"O","f"," ","T","h","e">>, NoneStr, NowDay - 100, FALSE, 0, <<>>),
      \* 7: "of the", no DOI: the full title of 6 in lower case
      Paper(<<"o","f"," ","t","h","e">>, NoneStr, NoDate, TRUE, 1000, <<>>),
      \* 8: "Deep Nets", doi 10.2/ab: the title of 1 under another DOI
      Paper(<<"D","e","e","p"," ","N","e","t","s">>, <<"1","0",".","2","/","a","b">>,
            NowDay - 1000, FALSE, 0, <<"a","b">>),
      \* 9: "on a", no DOI: no meaningful word, another full title than 6 and 7
      Paper(<<"o","n"," ","a">>, NoneStr, NowDay - 100, TRUE, 0, <<"c">>)
    >>

PaperIds == 1..Len(Catalog)

(***************************************************************************)
(* FederatedSearchService._create_result_signature / _remove_duplicates    *)
(***************************************************************************)

StopWords ==
    { <<"a">>, <<"a","n">>, <<"t","h","e">>, <<"a","n","d">>, <<"o","r">>,
      <<"b","u","t">>, <<"i","n">>, <<"o","n">>, <<"a","t">>, <<"t","o">>,
      <<"f","o","r">>, <<"o","f">>, <<"w","i","t","h">>, <<"b","y">> }

\* [word for word in title_words if word not in stop_words and len(word) > 2]
MeaningfulWords(title) ==
    SelectSeq(Split(Lower(title)), LAMBDA w : w \notin StopWords /\ Len(w) > 2)

\* hashlib.md5(...).hexdigest() is kept as its argument: equal digests are
\* taken to mean equal arguments.
Md5(s) == s

\* The signature with the DOI compared as written (no lower()).
SignatureOfCaseSensitive(title, doi) ==
    IF doi # NoneStr
    THEN [kind |-> "doi", key |-> doi]
    ELSE IF MeaningfulWords(title) # <<>>
         THEN [kind |-> "title", key |-> Md5(Join(SortWords(MeaningfulWords(title))))]
         ELSE [kind |-> "full_title", key |-> Md5(Lower(title))]

SignatureOf(title, doi) ==
    IF doi # NoneStr
    THEN [kind |-> "doi", key |-> Lower(doi)]
    ELSE IF MeaningfulWords(title) # <<>>
         THEN [kind |-> "title", key |-> Md5(Join(SortWords(MeaningfulWords(title))))]
         ELSE [kind |-> "full_title", key |-> Md5(Lower(title))]

\* A SearchResult in flight: the paper it describes and its source_database.
Result(p, db) == [paper |-> p, src |-> db]

CreateResultSignature(r) == SignatureOf(Catalog[r.paper].title, Catalog[r.paper].doi)

\* The loop of _remove_duplicates over results[1..n]: the unique results so
\* far, the signatures seen and the number of duplicates dropped.
RECURSIVE DedupLoop(_, _)
DedupLoop(results, n) ==
    IF n = 0
    THEN [unique |-> <<>>, seen |-> {}, removed |-> 0]
    ELSE LET prev == DedupLoop(results, n - 1)
             sig  == CreateResultSignature(results[n])
         IN  IF sig \notin prev.seen
             THEN [unique  |-> Append(prev.unique, results[n]),
                   seen    |-> prev.seen \cup {sig},
                   removed |-> prev.removed]
             ELSE [prev EXCEPT !.removed = @ + 1]

\* Duplicate removal in which a later duplicate replaces the earlier entry.
RECURSIVE KeepLastFrom(_, _)
KeepLastFrom(results, i) ==
    IF i > Len(results) THEN <<>>
    ELSE IF \E j \in (i + 1)..Len(results) :
                CreateResultSignature(results[j]) = CreateResultSignature(results[i])
         THEN KeepLastFrom(results, i + 1)
         ELSE <<results[i]>> \o KeepLastFrom(results, i + 1)

RemoveDuplicatesKeepLast(results) ==
    [unique  |-> KeepLastFrom(results, 1),
     removed |-> Len(results) - Len(KeepLastFrom(results, 1))]

\* Duplicate removal that deletes from the list it is iterating over: after a
\* deletion the iterator steps over the entry that moved into the gap.
RECURSIVE InPlaceFrom(_, _, _)
InPlaceFrom(results, i, seen) ==
    IF i > Len(results) THEN <<>>
    ELSE IF CreateResultSignature(results[i]) \in seen
         THEN IF i + 1 > Len(results) THEN <<>>
              ELSE <<results[i + 1]>> \o InPlaceFrom(results, i + 2, seen)
         ELSE <<results[i]>> \o
              InPlaceFrom(results, i + 1, seen \cup {CreateResultSignature(results[i])})

RemoveDuplicatesInPlace(results) ==
    [unique  |-> InPlaceFrom(results, 1, {}),
     removed |-> Len(results) - Len(InPlaceFrom(results, 1, {}))]

RemoveDuplicates(results) ==
    IF results = <<>>
    THEN [unique |-> <<>>, removed |-> 0]
    ELSE [unique  |-> DedupLoop(results, Len(results)).unique,
          removed |-> DedupLoop(results, Len(results)).removed]

(***************************************************************************)
(* Duplicate removal on its own: every raw result set of up to MaxRaw       *)
(* sample results.                                                          *)
(***************************************************************************)

MaxRaw == 3

RECURSIVE SeqsUpTo(_, _)
SeqsUpTo(S, n) ==
    IF n = 0 THEN {<<>>}
    ELSE SeqsUpTo(S, n - 1) \cup
         {Append(s, x) : s \in {t \in SeqsUpTo(S, n - 1) : Len(t) = n - 1}, x \in S}

AggIdle ==
    /\ aq = None
    /\ apc = "idle"
    /\ aExp = None
    /\ aTasks = <<>>
    /\ aInt = None
    /\ aResp = None
    /\ aOrder = <<>>

StoreIdle ==
    /\ sStore = <<>>
    /\ sLog = <<>>

Coroutines == {1, 2}

ConcIdle ==
    /\ cpc = [c \in Coroutines |-> "idle"]
    /\ cNew = [c \in Coroutines |-> [docs |-> <<>>, new |-> <<>>]]
    /\ cLook = [c \in Coroutines |-> "none"]
    /\ cIns = [c \in Coroutines |-> {}]

RerankIdle ==
    /\ rClient = FALSE
    /\ rInitial = FALSE
    /\ rCalls = 0
    /\ rLast = None

FoundIdle == sFound = None

ConnIdle ==
    /\ kRaw = None
    /\ kOut = None

HealthIdle ==
    /\ hConn = <<>>
    /\ hChecks = <<>>
    /\ hReport = None

SingleIdle ==
    /\ iGlobals = None
    /\ iMade = None
    /\ iLog = <<>>

EndpointIdle ==
    /\ eReq = None
    /\ eResp = None

LimiterIdle ==
    /\ lCfg = None
    /\ lLim = None
    /\ lNow = 0
    /\ lCallers = <<>>
    /\ lAdded = 0

LaterIdle == ConnIdle /\ HealthIdle /\ SingleIdle /\ EndpointIdle /\ LimiterIdle

\* The variable groups a specification does not use stay as they are.
OthersIdle == ConcIdle /\ RerankIdle /\ FoundIdle /\ LaterIdle

StreamIdle ==
    /\ gReq = None
    /\ gpc = "idle"
    /\ gFrames = <<>>
    /\ gQueries = [n |-> 0, i |-> 1]
    /\ gAll = <<>>
    /\ gUnique = <<>>
    /\ gTop = <<>>
    /\ gEscaped = FALSE
    /\ gStages = <<>>
    /\ gStopped = None

DedupIdle ==
    /\ dRaw = <<>>
    /\ dOut = None
    /\ dSecond = None
    /\ dOwn = None
    /\ dpc = "idle"

\* The groups of the specifications above, idle.
EarlierIdle ==
    /\ DedupIdle /\ AggIdle /\ StoreIdle /\ StreamIdle /\ ConcIdle /\ RerankIdle /\ FoundIdle
    /\ LimiterIdle

DedupInit ==
    /\ AggIdle
    /\ StoreIdle
    /\ StreamIdle
    /\ OthersIdle
    /\ dRaw \in SeqsUpTo({Result(p, "arxiv") : p \in PaperIds}, MaxRaw)
    /\ dOut = None
    /\ dSecond = None
    /\ dOwn = None
    /\ dpc = "raw"

\* deduplicated_results, duplicates_removed = self._remove_duplicates(all_results)
Merge ==
    /\ dpc = "raw"
    /\ dOut' = RemoveDuplicates(dRaw)
    /\ dpc' = "merged"
    /\ UNCHANGED <<dRaw, dSecond, dOwn>>
    /\ UNCHANGED outsideDedup

\* the merge step once more on the same raw result set
MergeSameInput ==
    /\ dpc = "merged"
    /\ dSecond' = RemoveDuplicates(dRaw)
    /\ dpc' = "second"
    /\ UNCHANGED <<dRaw, dOut, dOwn>>
    /\ UNCHANGED outsideDedup

\* the merge step on its own output
MergeOwnOutput ==
    /\ dpc = "second"
    /\ dOwn' = RemoveDuplicates(dOut.unique)
    /\ dpc' = "own"
    /\ UNCHANGED <<dRaw, dOut, dSecond>>
    /\ UNCHANGED outsideDedup

DedupNext == Merge \/ MergeSameInput \/ MergeOwnOutput

SpecDedup == DedupInit /\ [][DedupNext]_vars

\* What the claims about duplicate removal speak of.
HasDoi(r) == Catalog[r.paper].doi # NoneStr
LowerDoi(r) == Lower(Catalog[r.paper].doi)
MeaningfulSet(r) ==
    {MeaningfulWords(Catalog[r.paper].title)[k] :
        k \in 1..Len(MeaningfulWords(Catalog[r.paper].title))}
SortedMeaningful(r) == SortWords(MeaningfulWords(Catalog[r.paper].title))
LowerTitle(r) == Lower(Catalog[r.paper].title)

Merged == dpc # "raw"

FirstOccurrences(raw) ==
    LET first(i) == \A j \in 1..(i - 1) :
                        CreateResultSignature(raw[j]) # CreateResultSignature(raw[i])
        F[i \in 0..Len(raw)] ==
            IF i = 0 THEN <<>>
            ELSE IF first(i) THEN Append(F[i - 1], raw[i]) ELSE F[i - 1]
    IN  F[Len(raw)]

\* C7: the output of _remove_duplicates is the input's first occurrences of
\* each signature in input order, and duplicates_removed is the input
\* length minus the output length.
C7_FirstOccurrenceWins ==
    Merged =>
        /\ dOut.unique = FirstOccurrences(dRaw)
        /\ dOut.removed = Len(dRaw) - Len(dOut.unique)

\* C7 witness: a later duplicate was dropped from between two kept entries.
C7_Witness ==
    /\ Merged
    /\ Len(dRaw) = 3
    /\ dOut.unique = <<dRaw[1], dRaw[3]>>
    /\ dRaw[1] # dRaw[2]
    /\ dOut.removed = 1

\* C8: merging the same raw set twice gives the same unique count, and
\* merging the merged list again removes nothing and changes nothing.
C8_DedupIdempotent ==
    /\ dpc \in {"second", "own"} => Len(dSecond.unique) = Len(dOut.unique)
    /\ dpc = "own" => (dOwn.removed = 0 /\ dOwn.unique = dOut.unique)

\* C8 witness: the first merge removed two duplicates and the merge of its
\* output was run.
C8_Witness == dpc = "own" /\ dOut.removed = 2 /\ Len(dOut.unique) = 1

(***************************************************************************)
(* FederatedSearchService.search                                           *)
(***************************************************************************)

\* self.connectors: the service is written for several connectors ("Add more
\* connectors as they're implemented"); two connector instances are taken.
AvailableDatabases == <<"arxiv", "semantic_scholar">>

SeqToSet(q) == {q[i] : i \in 1..Len(q)}

\* _get_databases_to_search without the default for a missing list.
GetDatabasesToSearchNoDefault(requested) ==
    SelectSeq(requested, LAMBDA db : db \in SeqToSet(AvailableDatabases))

\* _get_databases_to_search
GetDatabasesToSearch(requested) ==
    IF requested = <<>>
    THEN AvailableDatabases
    ELSE SelectSeq(requested, LAMBDA db : db \in SeqToSet(AvailableDatabases))

\* What a connector's search() holds for a query: the original query and an
\* expanded query find different papers.
Shelf(db, phase) ==
    CASE db = "arxiv" /\ phase = "orig" -> <<1, 3, 6>>
      [] db = "arxiv" /\ phase = "exp" -> <<5, 9>>
      [] db = "semantic_scholar" /\ phase = "orig" -> <<2, 4, 8>>
      [] db = "semantic_scholar" /\ phase = "exp" -> <<7, 3>>
      [] OTHER -> <<>>

Min(a, b) == IF a < b THEN a ELSE b
Max(a, b) == IF a > b THEN a ELSE b

\* The outcomes of one connector.search(query): it raises, it runs past the
\* timeout, or it returns nothing or its first max_results papers.
Outcomes(db, phase, limit) ==
    {[kind |-> "raise", results |-> <<>>], [kind |-> "timeout", results |-> <<>>],
     [kind |-> "ok", results |-> <<>>]}
    \cup {[kind |-> "ok",
           results |-> [i \in 1..Min(n, Len(Shelf(db, phase))) |->
                           Result(Shelf(db, phase)[i], db)]] : n \in {1, limit}}

\* How a coroutine ends: not yet, with a list, or with an exception.
Pending == [tag |-> "pending", items |-> <<>>]
Returned(list) == [tag |-> "list", items |-> list]
Raised == [tag |-> "exception", items |-> <<>>]

\* search_with_timeout without its except clauses.
SearchWithTimeoutPropagates(outcome) ==
    IF outcome.kind = "ok" THEN Returned(outcome.results) ELSE Raised

\* search_with_timeout with only its except asyncio.TimeoutError clause.
SearchWithTimeoutCatchesTimeoutOnly(outcome) ==
    IF outcome.kind = "ok" THEN Returned(outcome.results)
    ELSE IF outcome.kind = "timeout" THEN Returned(<<>>)
    ELSE Raised

\* DatabaseConnector.search_with_timeout: the results, or [] on a timeout or
\* on any exception.
SearchWithTimeout(outcome) ==
    IF outcome.kind = "ok" THEN Returned(outcome.results) ELSE Returned(<<>>)

\* timeout=30 for the original query, timeout=20 for an expanded query
OriginalTimeout == 30
ExpandedTimeout == 20

\* expansion.expanded_queries[:3]
ExpansionLimit == 3

\* SearchQuery.max_results: Field(ge=1, le=100)
MaxResultsLow == 1
MaxResultsHigh == 100

\* A SearchQuery whose max_results field has no bounds.
AnyMaxResults(n) == n \in Int

ValidMaxResults(n) == n >= MaxResultsLow /\ n <= MaxResultsHigh

\* max_results=query.max_results // 3
ExpandedMaxResults(n) == n \div 3

\* Seconds a call takes: the timeout when it times out; other calls finish
\* within the second.
CallSeconds(outcome, timeout) == IF outcome.kind = "timeout" THEN timeout ELSE 0

\* _search_database_with_expansion: except Exception as e: ... return []
TaskOnException == Returned(<<>>)

NewTask(db) ==
    [db |-> db, pc |-> "orig", k |-> 0, results |-> <<>>, calls |-> <<>>,
     limits |-> <<>>, clock |-> 0, ret |-> Pending]

\* _calculate_recency_score, in thousandths
RecencyScore(date) ==
    IF date = NoDate THEN 500
    ELSE LET days_old == NowDay - date
         IN  IF days_old < 365 THEN 1000
             ELSE IF days_old < 365 * 2 THEN 800
             ELSE IF days_old < 365 * 5 THEN 600
             ELSE IF days_old < 365 * 10 THEN 400
             ELSE 200

\* _calculate_citation_score, in thousandths
CitationScore(count) ==
    IF count = 0 THEN 500
    ELSE IF count >= 1000 THEN 1000
    ELSE IF count >= 100 THEN 800
    ELSE IF count >= 10 THEN 600
    ELSE IF count >= 1 THEN 400
    ELSE 200

\* llm_service.calculate_semantic_similarity for the sample papers, in
\* thousandths: no embeddings ([0.0] * len(texts)), or cosine similarities.
SemTables ==
    << [p \in PaperIds |-> 0],
       [p \in PaperIds |-> CASE p = 1 -> 100 [] p = 2 -> 900 [] p = 3 -> 700
                             [] p = 4 -> 0 - 500 [] p = 6 -> 300 [] OTHER -> 500] >>

\* relevance_score in ten-thousandths: min(1.0, max(0.0, 0.4 s + 0.3 r + 0.2 c + 0.1 a))
RelevanceScore(p, sem) ==
    Min(10000, Max(0,
        4 * sem[p] + 3 * RecencyScore(Catalog[p].date)
        + 2 * CitationScore(Catalog[p].cites)
        + (IF Catalog[p].oa THEN 1000 ELSE 500)))

\* Scoring that also rewrites the source of each result.
CalculateRelevanceScoresAndSource(results, sem) ==
    [i \in 1..Len(results) |->
        [paper |-> results[i].paper, src |-> "aggregator",
         rel |-> RelevanceScore(results[i].paper, sem)]]

\* _calculate_relevance_scores: every result gets its score fields
CalculateRelevanceScores(results, sem) ==
    [i \in 1..Len(results) |->
        [paper |-> results[i].paper, src |-> results[i].src,
         rel |-> RelevanceScore(results[i].paper, sem)]]

\* a connector's SearchResult has relevance_score=0.0
Unscored(results) ==
    [i \in 1..Len(results) |->
        [paper |-> results[i].paper, src |-> results[i].src, rel |-> 0]]

\* list.sort(key=..., reverse=True) as the order of the indices 1..n: stable,
\* descending in keys[i].
RECURSIVE InsertDesc(_, _, _)
InsertDesc(i, sorted, keys) ==
    IF sorted = <<>> THEN <<i>>
    ELSE IF keys[i] > keys[sorted[1]] THEN <<i>> \o sorted
    ELSE <<sorted[1]>> \o InsertDesc(i, Tail(sorted), keys)

RECURSIVE SortIndicesDesc(_, _)
SortIndicesDesc(n, keys) ==
    IF n = 0 THEN <<>>
    ELSE InsertDesc(n, SortIndicesDesc(n - 1, keys), keys)

SortDesc(list, keys) ==
    [j \in 1..Len(list) |-> list[SortIndicesDesc(Len(list), keys)[j]]]

\* The result list ordered by publication date, newest first, None last.
SortResultsByDate(results) ==
    SortDesc(results, [i \in 1..Len(results) |-> Catalog[results[i].paper].date])

\* deduplicated_results.sort(key=lambda x: x.relevance_score, reverse=True)
SortResults(results) ==
    SortDesc(results, [i \in 1..Len(results) |-> results[i].rel])

\* A consolidation that takes the tasks as they completed, not as they were
\* passed to asyncio.gather.
RECURSIVE ConsolidateAsCompleted(_, _)
ConsolidateAsCompleted(tasks, n) ==
    IF n = 0
    THEN [all_results |-> <<>>, results_per_database |-> <<>>,
          successful_databases |-> <<>>, failed_databases |-> <<>>]
    ELSE LET prev == ConsolidateAsCompleted(tasks, n - 1)
             t    == tasks[aOrder[n]]
         IN  IF t.ret.tag = "exception"
             THEN [prev EXCEPT
                     !.failed_databases = Append(@, t.db),
                     !.results_per_database = Append(@, <<t.db, 0>>)]
             ELSE [prev EXCEPT
                     !.successful_databases = Append(@, t.db),
                     !.results_per_database = Append(@, <<t.db, Len(t.ret.items)>>),
                     !.all_results = @ \o t.ret.items]

\* The consolidation loop over zip(names, search_results), up to task n.
RECURSIVE Consolidate(_, _)
Consolidate(tasks, n) ==
    IF n = 0
    THEN [all_results |-> <<>>, results_per_database |-> <<>>,
          successful_databases |-> <<>>, failed_databases |-> <<>>]
    ELSE LET prev == Consolidate(tasks, n - 1)
             t    == tasks[n]
         IN  IF t.ret.tag = "exception"
             THEN [prev EXCEPT
                     !.failed_databases = Append(@, t.db),
                     !.results_per_database = Append(@, <<t.db, 0>>)]
             ELSE [prev EXCEPT
                     !.successful_databases = Append(@, t.db),
                     !.results_per_database = Append(@, <<t.db, Len(t.ret.items)>>),
                     !.all_results = @ \o t.ret.items]

\* results_per_database[db]: a later assignment to a key replaces the earlier.
RECURSIVE DictGet(_, _, _)
DictGet(items, key, default) ==
    IF items = <<>> THEN default
    ELSE IF items[Len(items)][1] = key THEN items[Len(items)][2]
    ELSE DictGet(SubSeq(items, 1, Len(items) - 1), key, default)

\* The response of the except branch.
EmptyResponse ==
    [results |-> <<>>, total_results |-> 0, results_per_database |-> <<>>,
     search_time_ms |-> 0, query_expansion_used |-> FALSE,
     semantic_search_used |-> FALSE, duplicates_removed |-> 0,
     raised |-> FALSE, path |-> "except"]

\* An exception that leaves search() for its caller.
Propagated ==
    [results |-> <<>>, total_results |-> 0, results_per_database |-> <<>>,
     search_time_ms |-> 0, query_expansion_used |-> FALSE,
     semantic_search_used |-> FALSE, duplicates_removed |-> 0,
     raised |-> TRUE, path |-> "raised"]

\* except Exception as e: ... return FederatedSearchResponse(results=[], ...)
OnException == EmptyResponse

\* The number of expanded queries in a model run.
MaxExpansions == 1

Queries ==
    [databases : {<<>>, <<"semantic_scholar", "arxiv">>, <<"arxiv">>,
                  <<"searxng", "semantic_scholar">>, <<"searxng">>,
                  <<"arxiv", "arxiv">>},
     max_results : {1, 2, 6, 100},
     semantic : BOOLEAN]

AggInit ==
    /\ DedupIdle
    /\ StoreIdle
    /\ StreamIdle
    /\ OthersIdle
    /\ aq \in Queries
    /\ apc = "start"
    /\ aExp = None
    /\ aTasks = <<>>
    /\ aInt = None
    /\ aResp = None
    /\ aOrder = <<>>

\* search(), to the start of asyncio.gather: the expansion, the databases to
\* search and one task per database; an exception ends in the except branch.
AggStart ==
    /\ apc = "start"
    /\ \/ /\ aq.semantic
          /\ \E n \in 0..Min(MaxExpansions, ExpansionLimit) : aExp' = [queries |-> n]
          /\ aTasks' = [i \in 1..Len(GetDatabasesToSearch(aq.databases)) |->
                           NewTask(GetDatabasesToSearch(aq.databases)[i])]
          /\ apc' = "gather"
          /\ UNCHANGED <<aInt, aResp>>
       \/ /\ ~aq.semantic
          /\ aExp' = None
          /\ aTasks' = [i \in 1..Len(GetDatabasesToSearch(aq.databases)) |->
                           NewTask(GetDatabasesToSearch(aq.databases)[i])]
          /\ apc' = "gather"
          /\ UNCHANGED <<aInt, aResp>>
       \/ \* llm_service.expand_query throws
          /\ aq.semantic
          /\ aResp' = OnException
          /\ apc' = "done"
          /\ UNCHANGED <<aExp, aTasks, aInt>>
    /\ UNCHANGED <<aq, aOrder>>
    /\ UNCHANGED outsideAgg

\* One await of _search_database_with_expansion for task i.
TaskStep(i) ==
    /\ apc = "gather"
    /\ aTasks[i].pc # "done"
    /\ LET t == aTasks[i]
       IN  \/ \* original_results = await connector.search_with_timeout(query, timeout=30)
              /\ t.pc = "orig"
              /\ \E o \in Outcomes(t.db, "orig", aq.max_results) :
                    LET got     == SearchWithTimeout(o)
                        results == t.results \o got.items
                        expand  == aExp # None /\ aExp.queries > 0
                                   /\ Len(results) < aq.max_results \div 2
                        base    == [t EXCEPT !.results = results,
                                             !.calls = Append(@, o),
                                             !.limits = Append(@, aq.max_results),
                                             !.clock = @ + CallSeconds(o, OriginalTimeout)]
                    IN  aTasks' = [aTasks EXCEPT ![i] =
                            IF got.tag = "exception"
                            THEN [base EXCEPT !.pc = "done", !.ret = TaskOnException]
                            ELSE IF ~expand
                            THEN [base EXCEPT !.pc = "done", !.ret = Returned(results)]
                            ELSE IF ~ValidMaxResults(ExpandedMaxResults(aq.max_results))
                                 \* SearchQuery(max_results=0) fails validation
                                 THEN [base EXCEPT !.pc = "done", !.ret = TaskOnException]
                                 ELSE [base EXCEPT !.pc = "exp"]]
           \/ \* expanded_results = await connector.search_with_timeout(.., timeout=20)
              /\ t.pc = "exp"
              /\ \E o \in Outcomes(t.db, "exp", ExpandedMaxResults(aq.max_results)) :
                    LET got     == SearchWithTimeout(o)
                        results == t.results \o got.items
                        base    == [t EXCEPT !.results = results,
                                             !.calls = Append(@, o),
                                             !.limits =
                                                 Append(@, ExpandedMaxResults(aq.max_results)),
                                             !.k = @ + 1,
                                             !.clock = @ + CallSeconds(o, ExpandedTimeout)]
                    IN  aTasks' = [aTasks EXCEPT ![i] =
                            IF got.tag = "exception"
                            THEN [base EXCEPT !.pc = "done", !.ret = TaskOnException]
                            ELSE IF t.k + 1 = aExp.queries
                            THEN [base EXCEPT !.pc = "done", !.ret = Returned(results)]
                            ELSE base]
    /\ aOrder' = IF aTasks'[i].pc = "done" THEN Append(aOrder, i) ELSE aOrder
    /\ UNCHANGED <<aq, apc, aExp, aInt, aResp>>
    /\ UNCHANGED outsideAgg

RECURSIVE MaxClock(_, _)
MaxClock(tasks, n) ==
    IF n = 0 THEN 0 ELSE Max(tasks[n].clock, MaxClock(tasks, n - 1))

\* The response of the normal path, from the consolidation on: semantic
\* scores sem, suggestions not throwing.
NormalResponse(q, expansion, tasks, sem) ==
    LET cons   == Consolidate(tasks, Len(tasks))
        dedup  == RemoveDuplicates(cons.all_results)
        scored == IF q.semantic /\ dedup.unique # <<>>
                  THEN CalculateRelevanceScores(dedup.unique, sem)
                  ELSE Unscored(dedup.unique)
        sorted == SortResults(scored)
    IN  [results |-> sorted,
         total_results |-> Len(sorted),
         results_per_database |-> cons.results_per_database,
         search_time_ms |-> MaxClock(tasks, Len(tasks)) * 1000,
         query_expansion_used |-> expansion # None,
         semantic_search_used |-> q.semantic,
         duplicates_removed |-> dedup.removed,
         raised |-> FALSE, path |-> "normal"]

\* search(), from the return of asyncio.gather to its return.
AggFinish ==
    /\ apc = "gather"
    /\ \A i \in 1..Len(aTasks) : aTasks[i].pc = "done"
    /\ aInt' = Consolidate(aTasks, Len(aTasks))
    /\ \E m \in 1..Len(SemTables) :
          \/ aResp' = NormalResponse(aq, aExp, aTasks, SemTables[m])
          \/ \* llm_service.generate_search_suggestions throws
             /\ Len(RemoveDuplicates(Consolidate(aTasks, Len(aTasks)).all_results).unique) < 5
             /\ aResp' = OnException
    /\ apc' = "done"
    /\ UNCHANGED <<aq, aExp, aTasks, aOrder>>
    /\ UNCHANGED outsideAgg

AggNext ==
    \/ AggStart
    \/ \E i \in 1..Len(aTasks) : TaskStep(i)
    \/ AggFinish

SpecAgg == AggInit /\ [][AggNext]_vars

\* What the claims about one search() call speak of.
SearchReturned == apc = "done"
NormalPath == apc = "done" /\ aResp.path = "normal"

\* Every connector.search of the task timed out or raised.
AllCallsFailed(t) ==
    /\ t.calls # <<>>
    /\ \A c \in 1..Len(t.calls) : t.calls[c].kind # "ok"

\* The timeout of a task's c-th search: the original query, then expansions.
TimeoutOfCall(c) == IF c = 1 THEN OriginalTimeout ELSE ExpandedTimeout

TimedOut(t) == \E c \in 1..Len(t.calls) : t.calls[c].kind = "timeout"

FromDatabase(results, db) == SelectSeq(results, LAMBDA r : r.src = db)

\* Every search of every task of the provider of task i failed (a request
\* that names a provider twice has two tasks for it).
ProviderFailed(i) ==
    \A j \in 1..Len(aTasks) :
        aTasks[j].db = aTasks[i].db => AllCallsFailed(aTasks[j])

\* C3: whichever providers time out or raise, search() does not raise; a
\* provider all of whose searches failed counts 0 in results_per_database
\* and adds nothing to the merge; every result a provider's search returned
\* is in the merge before deduplication.
C3_ProviderFailureIsolated ==
    /\ SearchReturned => ~aResp.raised
    /\ NormalPath =>
          \A i \in 1..Len(aTasks) :
              /\ ProviderFailed(i) =>
                    /\ DictGet(aResp.results_per_database, aTasks[i].db, -1) = 0
                    /\ FromDatabase(aInt.all_results, aTasks[i].db) = <<>>
              /\ \A c \in 1..Len(aTasks[i].calls) :
                    aTasks[i].calls[c].kind = "ok" =>
                        SeqToSet(aTasks[i].calls[c].results)
                            \subseteq SeqToSet(aInt.all_results)

\* C3 witness: one provider failed on every search, the other returned
\* results in two searches.
C3_Witness ==
    /\ NormalPath
    /\ \E i, j \in 1..Len(aTasks) :
          /\ AllCallsFailed(aTasks[i])
          /\ Len(aTasks[j].calls) = 2
          /\ aTasks[j].calls[1].kind = "ok" /\ aTasks[j].calls[1].results # <<>>
          /\ aTasks[j].calls[2].kind = "ok" /\ aTasks[j].calls[2].results # <<>>

\* C4: a provider whose search timed out or failed is recorded as failed and
\* is not in the successful-provider list; its count is 0 and the response
\* holds the other provider's results.
C4_FailedProviderNotSuccessful ==
    NormalPath =>
        \A i \in 1..Len(aTasks) :
            ProviderFailed(i) =>
                /\ DictGet(aResp.results_per_database, aTasks[i].db, -1) = 0
                /\ aTasks[i].db \in SeqToSet(aInt.failed_databases)
                /\ aTasks[i].db \notin SeqToSet(aInt.successful_databases)

\* The part of C4 the code keeps: provider A timing out and provider B
\* returning 3 results give exactly B's 3 results, with counts A: 0, B: 3.
C4_CountsAndResults ==
    (/\ NormalPath
     /\ Len(aTasks) = 2
     /\ aTasks[1].db # aTasks[2].db
     /\ AllCallsFailed(aTasks[1])
     /\ aTasks[2].calls = <<[kind |-> "ok", results |-> aTasks[2].ret.items]>>
     /\ Len(aTasks[2].ret.items) = 3)
    => /\ DictGet(aResp.results_per_database, aTasks[1].db, -1) = 0
       /\ DictGet(aResp.results_per_database, aTasks[2].db, -1) = 3
       /\ {[paper |-> aResp.results[k].paper, src |-> aResp.results[k].src] :
              k \in 1..Len(aResp.results)} = SeqToSet(aTasks[2].ret.items)
       /\ Len(aResp.results) = 3

\* Every resolved provider failed on every search.
AllProvidersFailed ==
    /\ aTasks # <<>>
    /\ \A i \in 1..Len(aTasks) : AllCallsFailed(aTasks[i])

ZeroedStats ==
    /\ aResp.results = <<>>
    /\ aResp.total_results = 0
    /\ aResp.duplicates_removed = 0
    /\ aResp.search_time_ms = 0

\* C5 as claimed: search() never raises, and when all providers fail or a
\* step throws, the response has no results and total_results,
\* duplicates_removed and search_time_ms are 0.
C5_NeverRaisesZeroedStats ==
    SearchReturned =>
        /\ ~aResp.raised
        /\ (aResp.path = "except" \/ AllProvidersFailed) => ZeroedStats

\* C5 amended: search() never raises; when a step throws, the response has
\* no results, an empty results_per_database and total_results,
\* duplicates_removed and search_time_ms of 0; when all providers fail, the
\* response has no results, total_results = 0, duplicates_removed = 0 and a
\* count of 0 for each provider, and search_time_ms is the elapsed time of
\* the call: at least the timeout of every search that timed out (30 s for
\* the original query, 20 s for an expanded one).
C5_NeverRaisesEmptyResponse ==
    SearchReturned =>
        /\ ~aResp.raised
        /\ aResp.path = "except" =>
              (ZeroedStats /\ aResp.results_per_database = <<>>)
        /\ (NormalPath /\ AllProvidersFailed) =>
              /\ aResp.results = <<>>
              /\ aResp.total_results = 0
              /\ aResp.duplicates_removed = 0
              /\ \A i \in 1..Len(aTasks) :
                    DictGet(aResp.results_per_database, aTasks[i].db, -1) = 0
              /\ \A i \in 1..Len(aTasks) : \A c \in 1..Len(aTasks[i].calls) :
                    aTasks[i].calls[c].kind = "timeout" =>
                        aResp.search_time_ms >= TimeoutOfCall(c) * 1000

\* C5 witness: both providers timed out and the response was returned.
C5_Witness ==
    /\ NormalPath
    /\ Len(aTasks) = 2
    /\ AllProvidersFailed
    /\ \A i \in 1..Len(aTasks) : TimedOut(aTasks[i])
    /\ aResp.search_time_ms > 0

\* C9 as claimed: the result list is in publication date order, newest
\* first, undated results after all dated ones.
C9_SortedByDate ==
    SearchReturned =>
        \A i, j \in 1..Len(aResp.results) :
            i < j => Catalog[aResp.results[i].paper].date
                        >= Catalog[aResp.results[j].paper].date

\* The place of a response result in the merged list before the sort.
MergePosition(r) ==
    CHOOSE k \in 1..Len(RemoveDuplicates(aInt.all_results).unique) :
        RemoveDuplicates(aInt.all_results).unique[k] = [paper |-> r.paper, src |-> r.src]

\* C9 amended: the result list is ordered by relevance_score descending,
\* results of equal score staying in merge order; publication date enters
\* only through the recency part of the score.
C9_SortedByRelevance ==
    NormalPath =>
        \A i, j \in 1..Len(aResp.results) :
            i < j =>
                /\ aResp.results[i].rel >= aResp.results[j].rel
                /\ aResp.results[i].rel = aResp.results[j].rel
                      => MergePosition(aResp.results[i]) < MergePosition(aResp.results[j])

\* C9 witness: scores were computed and the sort moved an older paper ahead
\* of a newer one.
C9_Witness ==
    /\ NormalPath
    /\ \E i, j \in 1..Len(aResp.results) :
          /\ i < j
          /\ aResp.results[i].rel > aResp.results[j].rel
          /\ MergePosition(aResp.results[i]) > MergePosition(aResp.results[j])
          /\ Catalog[aResp.results[i].paper].date # NoDate
          /\ Catalog[aResp.results[i].paper].date < Catalog[aResp.results[j].paper].date

\* What the searches of a task gave their caller, one after the other: the
\* results of a search that returned, nothing for one that timed out or
\* raised.
RECURSIVE GivenByCalls(_, _)
GivenByCalls(calls, n) ==
    IF n = 0 THEN <<>>
    ELSE GivenByCalls(calls, n - 1)
         \o (IF calls[n].kind = "ok" THEN calls[n].results ELSE <<>>)

\* The searches _search_database_with_expansion makes when none of them
\* propagates: the original one, and the expanded ones when the original
\* gave less than half of max_results.
SearchesToMake(t) ==
    IF /\ aExp # None
       /\ aExp.queries > 0
       /\ Len(GivenByCalls(t.calls, 1)) < aq.max_results \div 2
       /\ ValidMaxResults(aq.max_results \div 3)
    THEN 1 + aExp.queries
    ELSE 1

\* C21: search_with_timeout returns [] and does not propagate when the
\* underlying search runs past the timeout or raises; otherwise it returns
\* exactly the underlying search's results.
C21_TimeoutOrExceptionGivesEmptyList ==
    \A i \in 1..Len(aTasks) :
        /\ aTasks[i].results = GivenByCalls(aTasks[i].calls, Len(aTasks[i].calls))
        /\ aTasks[i].ret.tag # "exception"
        /\ aTasks[i].pc = "done" => Len(aTasks[i].calls) = SearchesToMake(aTasks[i])

\* C21 witness: a task whose original search raised and whose expanded
\* search returned results, and one whose original search timed out.
C21_Witness ==
    \E i, j \in 1..Len(aTasks) :
        /\ aTasks[i].pc = "done"
        /\ Len(aTasks[i].calls) = 2
        /\ aTasks[i].calls[1].kind = "raise"
        /\ aTasks[i].calls[2].kind = "ok"
        /\ aTasks[i].calls[2].results # <<>>
        /\ aTasks[i].ret = Returned(aTasks[i].calls[2].results)
        /\ aTasks[j].pc = "done"
        /\ aTasks[j].calls[1].kind = "timeout"

\* The merged set of the call: the consolidated results without duplicates.
MergedSet == RemoveDuplicates(aInt.all_results).unique

ReturnedNormally == apc = "done" /\ aResp.path = "normal"

\* The fields of a result other than its scores.
SameButScores(r, u) == r.paper = u.paper /\ r.src = u.src

\* C30: a SearchResult is mutated only in its score fields, and no field of
\* a result is changed after it has been deduplicated into the merged set:
\* the results of the response are the results of the merged set with the
\* relevance score their connector gave them.
C30_NoFieldChangedAfterDedup ==
    ReturnedNormally =>
        /\ Len(aResp.results) = Len(MergedSet)
        /\ \A i \in 1..Len(aResp.results) :
              /\ \E j \in 1..Len(MergedSet) : SameButScores(aResp.results[i], MergedSet[j])
              /\ aResp.results[i].rel = 0

\* C30 as the code has it: the results of the response are those of the
\* merged set, changed in nothing but their scores; the scores are written
\* after the deduplication, and only under semantic search; the list is in
\* descending order of the scores it carries, so none was written after the
\* sort.
C30_OnlyScoresChangedBeforeSort ==
    ReturnedNormally =>
        /\ Len(aResp.results) = Len(MergedSet)
        /\ \A j \in 1..Len(MergedSet) :
              \E i \in 1..Len(aResp.results) : SameButScores(aResp.results[i], MergedSet[j])
        /\ \A i \in 1..Len(aResp.results) :
              /\ \E j \in 1..Len(MergedSet) : SameButScores(aResp.results[i], MergedSet[j])
              /\ ~aq.semantic => aResp.results[i].rel = 0
        /\ \A i, j \in 1..Len(aResp.results) :
              i < j => aResp.results[i].rel >= aResp.results[j].rel

\* A semantic search whose merged set lost a duplicate and whose two
\* results came back with different scores.
C30_Witness ==
    /\ ReturnedNormally
    /\ aq.semantic
    /\ aResp.duplicates_removed > 0
    /\ Len(aResp.results) >= 2
    /\ aResp.results[1].rel > aResp.results[2].rel
    /\ aResp.results[2].rel > 0

\* The providers of the tasks, in the order the tasks were created.
TaskDatabases == [i \in 1..Len(aTasks) |-> aTasks[i].db]

\* The providers a request asks for: the known ones of its list in the
\* order of the list, both providers when it gives none.
ProvidersAskedFor ==
    IF aq.databases = <<>> THEN <<"arxiv", "semantic_scholar">>
    ELSE SelectSeq(aq.databases, LAMBDA db : db \in {"arxiv", "semantic_scholar"})

\* search() got past the query expansion.
TasksCreated == apc = "gather" \/ (apc = "done" /\ aInt # None)

\* C31: the Aggregator queries exactly the known providers of the request's
\* list, in the order of the list, and the default set when the list is
\* absent or empty; a request naming only unknown providers makes no
\* provider search and returns an empty result list.
C31_QueriesRequestedKnownProviders ==
    /\ TasksCreated => TaskDatabases = ProvidersAskedFor
    /\ ~TasksCreated => aTasks = <<>>
    /\ (apc = "done" /\ ProvidersAskedFor = <<>>) =>
          /\ \A i \in 1..Len(aTasks) : aTasks[i].calls = <<>>
          /\ aResp.results = <<>>

\* A list of an unknown and a known provider: the known one was searched.
C31_Witness ==
    /\ apc = "done"
    /\ aq.databases = <<"searxng", "semantic_scholar">>
    /\ TaskDatabases = <<"semantic_scholar">>
    /\ Len(aTasks[1].calls) > 0

\* A list of unknown providers only: a normal, empty response.
C31_WitnessUnknownOnly ==
    /\ apc = "done"
    /\ aq.databases = <<"searxng">>
    /\ aTasks = <<>>
    /\ aResp.path = "normal"
    /\ aResp.results = <<>>

\* The sum of the values of stats.results_per_database.
PerDatabaseSum ==
    DictGet(aResp.results_per_database, "arxiv", 0)
        + DictGet(aResp.results_per_database, "semantic_scholar", 0)

\* C32: in every response of the normal path, stats.total_results is the
\* length of the result list, and the sum of results_per_database over the
\* queried providers is total_results plus duplicates_removed.
C32_StatsAddUp ==
    ReturnedNormally =>
        /\ aResp.total_results = Len(aResp.results)
        /\ PerDatabaseSum = aResp.total_results + aResp.duplicates_removed

\* The request names a provider twice.
NamedTwice ==
    \E i, j \in 1..Len(aq.databases) : i < j /\ aq.databases[i] = aq.databases[j]

\* What the code keeps: total_results is the length of the list; the counts
\* add up when no provider is named twice; of a provider named twice only
\* the last task is counted, so the sum can only fall short.
C32_StatsAddUpForDistinctProviders ==
    ReturnedNormally =>
        /\ aResp.total_results = Len(aResp.results)
        /\ ~NamedTwice =>
              PerDatabaseSum = aResp.total_results + aResp.duplicates_removed
        /\ PerDatabaseSum <= aResp.total_results + aResp.duplicates_removed

\* Two tasks for arXiv returned three results each: three are counted, three
\* returned and three removed as duplicates.
C32_SecondTaskOverwritesCount ==
    /\ ReturnedNormally
    /\ aq.databases = <<"arxiv", "arxiv">>
    /\ PerDatabaseSum = 3
    /\ aResp.total_results + aResp.duplicates_removed = 6

\* The lists the tasks returned, joined in the order the providers were
\* resolved, up to task n.
RECURSIVE ListsInResolutionOrder(_)
ListsInResolutionOrder(n) ==
    IF n = 0 THEN <<>>
    ELSE ListsInResolutionOrder(n - 1) \o aTasks[n].ret.items

\* The results a response kept, as (paper, source) pairs.
Survivors(results) ==
    {<<results[k].paper, results[k].src>> : k \in 1..Len(results)}

\* C33: the merged result list and the duplicate that survives depend only on
\* the order the providers were resolved in and on the list each provider
\* returned, not on the order the concurrent searches completed in: the
\* merged list is the tasks' lists joined in resolution order, and the
\* response keeps the results deduplication keeps of that list.
C33_MergedInResolutionOrder ==
    ReturnedNormally =>
        /\ aInt.all_results = ListsInResolutionOrder(Len(aTasks))
        /\ Survivors(aResp.results)
              = Survivors(RemoveDuplicates(ListsInResolutionOrder(Len(aTasks))).unique)
        /\ aResp.duplicates_removed
              = RemoveDuplicates(ListsInResolutionOrder(Len(aTasks))).removed

\* The second provider's search completed before the first one's, both
\* returned results and a duplicate among them was removed.
C33_Witness ==
    /\ ReturnedNormally
    /\ aOrder = <<2, 1>>
    /\ aTasks[1].db # aTasks[2].db
    /\ aTasks[1].ret.items # <<>>
    /\ aTasks[2].ret.items # <<>>
    /\ aResp.duplicates_removed > 0

\* C34: every SearchQuery passed to a connector, each expansion sub-query with
\* its reduced limit included, has max_results within 1..100 when the
\* original query has: a sub-query whose reduced limit would leave the range
\* is never built, so no connector is called with it.
C34_ConnectorQueriesWithinRange ==
    (aq # None /\ aq.max_results >= MaxResultsLow /\ aq.max_results <= MaxResultsHigh) =>
        \A i \in 1..Len(aTasks) :
            /\ Len(aTasks[i].limits) = Len(aTasks[i].calls)
            /\ \A c \in 1..Len(aTasks[i].limits) :
                  /\ aTasks[i].limits[c] >= MaxResultsLow
                  /\ aTasks[i].limits[c] <= MaxResultsHigh

\* A connector was called with an expansion sub-query of limit 100 // 3.
C34_Witness ==
    \E i \in 1..Len(aTasks) :
        /\ aq.max_results = MaxResultsHigh
        /\ Len(aTasks[i].limits) = 2
        /\ aTasks[i].limits[2] = 33

\* The sub-query of a query with max_results 2 was refused: the task ended
\* with [] after its one search with the original query.
C34_WitnessRefused ==
    \E i \in 1..Len(aTasks) :
        /\ aq.max_results = 2
        /\ aExp # None /\ aExp.queries > 0
        /\ aTasks[i].pc = "done"
        /\ aTasks[i].limits = <<2>>
        /\ aTasks[i].calls[1].kind = "ok"

(***************************************************************************)
(* EmbeddingClient: the document store                                     *)
(***************************************************************************)

\* settings.RAG_CHUNK_SIZE, settings.RAG_CHUNK_OVERLAP
RagChunkSize == 1000
RagChunkOverlap == 200

\* A document handed to the store: title, abstract and is_open_access.  The
\* abstract is `abstract` followed by `filler` further characters that are
\* the same in every document and occur in no title or abstract.
Doc(t, a, filler, oa) == [title |-> t, abstract |-> a, filler |-> filler, oa |-> oa]

StoreDocs ==
    <<
      \* 1: "A" / "b", open access
      Doc(<<"A">>, <<"b">>, 0, TRUE),
      \* 2: the title and abstract of 1 from another provider, restricted
      Doc(<<"A">>, <<"b">>, 0, FALSE),
      \* 3: "A_b" / "c"
      Doc(<<"A","_","b">>, <<"c">>, 0, TRUE),
      \* 4: "A" / "b_c": another document with the f"{title}_{abstract}" of 3
      Doc(<<"A">>, <<"b","_","c">>, 0, FALSE),
      \* 5: "L" / "b" and 1200 more characters: longer than one chunk
      Doc(<<"L">>, <<"b">>, 1200, FALSE),
      \* 6: no title
      Doc(<<>>, <<"b">>, 0, TRUE)
    >>

\* The document lists the store is called with.
Batches ==
    {[i \in 1..Len(ids) |-> StoreDocs[ids[i]]] :
        ids \in {<<>>, <<1>>, <<2>>, <<1, 2>>, <<3>>, <<4>>, <<5>>, <<5, 1>>, <<6>>}}

UnknownTitle == <<"U","n","k","n","o","w","n"," ","T","i","t","l","e">>

\* title = doc.title or "Unknown Title"
TitleOf(d) == IF d.title = <<>> THEN UnknownTitle ELSE d.title

\* _create_document_hash: md5(f"{title}_{abstract}").hexdigest()[:12], the
\* digest prefix taken as injective on the hashed string.
CreateDocumentHash(title, abstract, filler) ==
    Md5([text |-> title \o <<"_">> \o abstract, filler |-> filler])

\* len(f"Title: {title}\n\nAbstract: {abstract}")
PageContentLen(d) == 7 + Len(TitleOf(d)) + 12 + Len(d.abstract) + d.filler

\* How many chunks the text splitter makes of a page longer than
\* RAG_CHUNK_SIZE: windows of RAG_CHUNK_SIZE that overlap by
\* RAG_CHUNK_OVERLAP.  A page that fits is kept whole.
ChunkCount(len) ==
    IF len <= RagChunkSize THEN 1
    ELSE (len - RagChunkOverlap + (RagChunkSize - RagChunkOverlap) - 1)
             \div (RagChunkSize - RagChunkOverlap)

\* The chunks of one document; each chunk carries the document's metadata.
ChunksOf(d) ==
    [part \in 1..ChunkCount(PageContentLen(d)) |->
        [hash |-> CreateDocumentHash(TitleOf(d), d.abstract, d.filler),
         part |-> part,
         title |-> TitleOf(d),
         access |-> IF d.oa THEN "open" ELSE "restricted"]]

\* split_docs: the chunks of every document of the call, in order.
RECURSIVE SplitDocs(_)
SplitDocs(docs) ==
    IF docs = <<>> THEN <<>>
    ELSE ChunksOf(Head(docs)) \o SplitDocs(Tail(docs))

\* existing_hashes when vector_store.get() returns.
ExistingHashes(store) == {store[i].hash : i \in 1..Len(store)}

\* new_docs: the chunks whose doc_hash is not in existing_hashes.
NewDocs(split, existing) == SelectSeq(split, LAMBDA c : c.hash \notin existing)

\* What the vector store does during one call: get() returns or raises;
\* add_documents returns or raises, adding nothing when it raises; Chroma()
\* in _initialize_vector_store returns, or raises, after which the
\* collection is deleted (or the delete fails) and the second Chroma()
\* returns or raises; the retried add_documents returns or raises.
StoreFaults ==
    [get : {"ok", "raise"}, add : {"ok"}, deleted : {FALSE}, ctor : {"ok"}, retry : {"ok"}]
    \cup
    [get : {"ok", "raise"}, add : {"raise"}, deleted : BOOLEAN,
     ctor : {"ok", "raise"}, retry : {"ok", "raise"}]

\* _initialize_vector_store: the collection afterwards and whether the
\* second Chroma() raised.
InitializeVectorStore(store, o) ==
    [store |-> IF o.deleted THEN <<>> ELSE store, raised |-> o.ctor = "raise"]

\* What a call did: the collection afterwards, the chunks it added, how the
\* lookup ended, whether it raised, how often it called add_documents and
\* whether it deleted the collection.
CallResult(store, added, lookup, raised, adds, deleted) ==
    [store |-> store, added |-> added, lookup |-> lookup, raised |-> raised,
     adds |-> adds, deleted |-> deleted]

\* The end of process_and_store_documents: new_docs are added; when
\* add_documents raises, the vector store is initialized again and
\* add_documents is called a second time, outside any try.
AddNewDocs(store, new, o) ==
    LET init == InitializeVectorStore(store, o)
    IN  IF new = <<>> THEN CallResult(store, 0, o.get, FALSE, 0, FALSE)
        ELSE IF o.add = "ok"
             THEN CallResult(store \o new, Len(new), o.get, FALSE, 1, FALSE)
        ELSE IF init.raised
             THEN CallResult(init.store, 0, o.get, TRUE, 1, o.deleted)
        ELSE IF o.retry = "ok"
             THEN CallResult(init.store \o new, Len(new), o.get, FALSE, 2, o.deleted)
        ELSE CallResult(init.store, 0, o.get, TRUE, 2, o.deleted)

\* process_and_store_documents(documents) on the collection `store`.
ProcessAndStoreDocuments(store, docs, o) ==
    IF docs = <<>> THEN CallResult(store, 0, "skipped", FALSE, 0, FALSE)
    ELSE AddNewDocs(store,
                    NewDocs(SplitDocs(docs),
                            IF o.get = "ok" THEN ExistingHashes(store) ELSE {}),
                    o)

\* settings.RAG_TOP_K
RagTopK == 20

\* similarity_search that passes no filter to the vector store.
SimilaritySearchUnfiltered(store, k, access_filter, ok) ==
    IF ok THEN SubSeq(store, 1, Min(k, Len(store))) ELSE <<>>

\* similarity_search that returns every chunk passing the filter, whatever k
\* is and whether or not the vector store raised.
SimilaritySearchUnbounded(store, k, access_filter, ok) ==
    IF access_filter \in {"open", "restricted"}
    THEN SelectSeq(store, LAMBDA c : c.access = access_filter)
    ELSE store

\* similarity_search(query, k, access_filter): the k best chunks that pass
\* the filter, or [] when the vector store raises.  The best chunks are
\* taken to be the first ones.
SimilaritySearch(store, k, access_filter, ok) ==
    LET passing == IF access_filter \in {"open", "restricted"}
                   THEN SelectSeq(store, LAMBDA c : c.access = access_filter)
                   ELSE store
    IN  IF ok THEN SubSeq(passing, 1, Min(k, Len(passing))) ELSE <<>>

\* Calls made on the store in one run.
MaxCalls == 2

StoreInit ==
    /\ DedupIdle
    /\ AggIdle
    /\ StreamIdle
    /\ OthersIdle
    /\ sStore = <<>>
    /\ sLog = <<>>

\* One process_and_store_documents call, from entry to return or raise.
ProcessAndStore ==
    /\ Len(sLog) < MaxCalls
    /\ \E docs \in Batches, o \in StoreFaults :
          LET r == ProcessAndStoreDocuments(sStore, docs, o)
          IN  /\ sStore' = r.store
              /\ sLog' = Append(sLog, [docs |-> docs,
                                       lookup |-> r.lookup,
                                       added |-> r.added,
                                       before |-> Len(sStore),
                                       after |-> Len(r.store),
                                       raised |-> r.raised,
                                       adds |-> r.adds,
                                       deleted |-> r.deleted])
    /\ UNCHANGED outsideStore

StoreNext == ProcessAndStore

SpecStore == StoreInit /\ [][StoreNext]_vars

\* Calls k and k+1 were each given one document, the two with identical
\* title and abstract, and both returned to their caller.
SameDocumentTwice(k) ==
    /\ Len(sLog[k].docs) = 1
    /\ Len(sLog[k + 1].docs) = 1
    /\ sLog[k].docs[1].title = sLog[k + 1].docs[1].title
    /\ sLog[k].docs[1].abstract = sLog[k + 1].docs[1].abstract
    /\ sLog[k].docs[1].filler = sLog[k + 1].docs[1].filler
    /\ ~sLog[k].raised
    /\ ~sLog[k + 1].raised

\* C10: of two process_and_store_documents calls in sequence with the same
\* document (identical title and abstract), the second adds no chunk.
C10_SecondCallAddsNoChunk ==
    \A k \in 1..(Len(sLog) - 1) :
        SameDocumentTwice(k) =>
            /\ sLog[k + 1].added = 0
            /\ sLog[k + 1].after = sLog[k + 1].before

\* What the code keeps of C10: the second call adds no chunk when its
\* existing-hash lookup (vector_store.get()) returned.
C10_SecondCallAddsNoChunkAfterLookup ==
    \A k \in 1..(Len(sLog) - 1) :
        (SameDocumentTwice(k) /\ sLog[k + 1].lookup = "ok") =>
            /\ sLog[k + 1].added = 0
            /\ sLog[k + 1].after = sLog[k + 1].before

\* The first add_documents of logged call k raised.
FirstAddFailed(k) == sLog[k].adds = 2 \/ (sLog[k].adds = 1 /\ sLog[k].raised)

\* C13: when add_documents fails, the store destroys and recreates the
\* collection and retries add_documents exactly once; when the retry fails
\* too, the call raises.
C13_FailureDestroysRecreatesRetriesOnce ==
    \A k \in 1..Len(sLog) :
        FirstAddFailed(k) =>
            /\ sLog[k].deleted
            /\ sLog[k].adds = 2
            /\ sLog[k].added = 0 => sLog[k].raised

\* What the code keeps of C13: add_documents is called at most twice, a
\* call raises only after a failed add_documents, and a call that did not
\* raise after a failed add_documents added its chunks in the one retry.
C13_AtMostOneRetry ==
    \A k \in 1..Len(sLog) :
        /\ sLog[k].adds <= 2
        /\ sLog[k].raised => FirstAddFailed(k)
        /\ (FirstAddFailed(k) /\ ~sLog[k].raised) =>
              (sLog[k].adds = 2 /\ sLog[k].added > 0)
        /\ sLog[k].deleted => FirstAddFailed(k)

\* The call was given two documents with identical title and abstract.
HasTwin(docs) ==
    /\ Len(docs) = 2
    /\ docs[1].title = docs[2].title
    /\ docs[1].abstract = docs[2].abstract
    /\ docs[1].filler = docs[2].filler

C28_TwinStoredTwiceOrNotAtAll ==
    \A k \in 1..Len(sLog) :
        (HasTwin(sLog[k].docs) /\ ~sLog[k].raised) =>
            sLog[k].added \in {0, 2 * Len(ChunksOf(sLog[k].docs[1]))}

\* The collection ends with the same chunk twice, both added by one call.
C28_TwinStoredTwice ==
    /\ Len(sLog) > 0
    /\ HasTwin(sLog[Len(sLog)].docs)
    /\ sLog[Len(sLog)].lookup = "ok"
    /\ sLog[Len(sLog)].added = 2
    /\ Len(sStore) >= 2
    /\ sStore[Len(sStore)].hash = sStore[Len(sStore) - 1].hash
    /\ sStore[Len(sStore)].part = sStore[Len(sStore) - 1].part

(***************************************************************************)
(* The streaming orchestrator: generate_openai_stream and generate_stream  *)
(***************************************************************************)

\* settings.RAG_DATABASE_CANDIDATES
RagDatabaseCandidates == 50

\* database_queries the LLM returns, and chunks of one LLM answer.
MaxQueries == 2
MaxChunks == 2

\* A frame of the stream.  Of generate_stream, `kind` is the frame's type;
\* of generate_openai_stream, "role" is the initial assistant chunk,
\* "status", "queries" and "documents" are <event> chunks, "response_chunk"
\* a content chunk, "error" the chunk of the outer except, "final" the chunk
\* with finish_reason stop and "done" the line data: [DONE].
Frame(kind, msg) == [kind |-> kind, msg |-> msg]

\* max_results 0 stands for None; key is MISTRAL_API_KEY being set; reranker
\* is CohereReranker.is_available().  generate_stream has no first-message
\* path, always yields its events and passes no access filter.
Requests ==
    [variant : {"openai"}, first : BOOLEAN, events : BOOLEAN,
     max_results : {0, 10, 500}, access_filter : {"none", "open"},
     key : BOOLEAN, reranker : BOOLEAN]
    \cup
    [variant : {"query"}, first : {FALSE}, events : {TRUE},
     max_results : {0, 10, 500}, access_filter : {"none"},
     key : BOOLEAN, reranker : BOOLEAN]

\* The papers a search can answer with: those of the catalog, then
\* 10: "  ", a title of blanks only, and 11: " Deep Nets ", the title of 1
\* between blanks.
Library ==
    Catalog \o
    << Paper(<<" ", " ">>, NoneStr, NoDate, FALSE, 0, <<"c">>),
       Paper(<<" ","D","e","e","p"," ","N","e","t","s"," ">>, NoneStr, NoDate, TRUE, 0,
             <<"a","b">>) >>

\* What one search_service.search call can answer: lists that
\* _remove_duplicates leaves as they are.
SearchAnswers == {<<>>, <<1, 8>>, <<3, 2>>, <<10, 11>>}

\* A variant that yields no event at all.
EventFramesNone(req, kind, msg) == <<>>

\* An event of a stage: always in generate_stream, under stream_events in
\* generate_openai_stream.
EventFrames(req, kind, msg) ==
    IF req.variant = "query" \/ req.events THEN <<Frame(kind, msg)>> ELSE <<>>

\* The outer except of the generator: generate_openai_stream yields an error
\* chunk and data: [DONE]; generate_stream yields an error frame.
OnStreamException(req, frames) ==
    IF req.variant = "openai"
    THEN frames \o <<Frame("error", "processing"), Frame("done", "")>>
    ELSE frames \o <<Frame("error", "processing")>>

\* The end of the try block: the final chunk and data: [DONE], or the
\* complete frame.
Closing(req) ==
    IF req.variant = "openai"
    THEN <<Frame("final", ""), Frame("done", "")>>
    ELSE <<Frame("complete", "")>>

ResponseChunks(n) == [i \in 1..n |-> Frame("response_chunk", "answer")]

\* str.strip()
RECURSIVE LStrip(_)
LStrip(str) == IF str # <<>> /\ Head(str) = " " THEN LStrip(Tail(str)) ELSE str

RECURSIVE RStrip(_)
RStrip(str) ==
    IF str # <<>> /\ str[Len(str)] = " "
    THEN RStrip(SubSeq(str, 1, Len(str) - 1))
    ELSE str

Strip(str) == RStrip(LStrip(str))

\* A loop that compares the titles as they are written and keeps a document
\* whose title is blank.
RECURSIVE UniqueFromAsWritten(_, _, _)
UniqueFromAsWritten(all, i, seen) ==
    IF i > Len(all) THEN <<>>
    ELSE LET title == Library[all[i]].title
         IN  IF title \notin seen
             THEN <<all[i]>> \o UniqueFromAsWritten(all, i + 1, seen \cup {title})
             ELSE UniqueFromAsWritten(all, i + 1, seen)

UniqueDocumentsAsWritten(all) == UniqueFromAsWritten(all, 1, {})

\* The loop over all_documents from index i: a document is kept when its
\* title.lower().strip() is not empty and was not seen.
RECURSIVE UniqueFrom(_, _, _)
UniqueFrom(all, i, seen) ==
    IF i > Len(all) THEN <<>>
    ELSE LET title_lower == Strip(Lower(Library[all[i]].title))
         IN  IF title_lower # <<>> /\ title_lower \notin seen
             THEN <<all[i]>> \o UniqueFrom(all, i + 1, seen \cup {title_lower})
             ELSE UniqueFrom(all, i + 1, seen)

UniqueDocuments(all) == UniqueFrom(all, 1, {})

\* The SearchResult objects handed to process_and_store_documents.
AsDocs(papers) ==
    [i \in 1..Len(papers) |->
        Doc(Library[papers[i]].title, Library[papers[i]].abstract, 0, Library[papers[i]].oa)]

Reverse(list) == [i \in 1..Len(list) |-> list[Len(list) + 1 - i]]

\* A step of the generator is entered: `at` frames were yielded when its
\* work starts.
Stage(stage, at) == [stage |-> stage, at |-> at]

\* A variant in which no conversation counts as a first message.
IsFirstMessageNever(req) == FALSE

\* is_first_message, which only generate_openai_stream has.
IsFirstMessage(req) == req.variant = "openai" /\ req.first

\* The stream of generate_clarification_request: it yields some chunks and
\* ends, or raises after some.
ClarificationOutcomes == [chunks : 0..MaxChunks, raised : BOOLEAN]

ClarificationChunks(n) == [i \in 1..n |-> Frame("response_chunk", "clarification")]

\* A variant in which the answer is generated from no documents too.
GenerationSkippedNever(top_documents) == FALSE

\* if top_documents: ... else: the fallback message
GenerationSkipped(top_documents) == top_documents = <<>>

\* "I couldn't find any relevant documents ..."
FallbackFrames == <<Frame("response_chunk", "fallback")>>

StreamInit ==
    /\ DedupIdle
    /\ AggIdle
    /\ OthersIdle
    /\ sStore \in {<<>>, ChunksOf(StoreDocs[2])}
    /\ sLog = <<>>
    /\ gReq \in Requests
    /\ gpc = "open"
    /\ gFrames = <<>>
    /\ gQueries = [n |-> 0, i |-> 1]
    /\ gAll = <<>>
    /\ gUnique = <<>>
    /\ gTop = <<>>
    /\ gEscaped = FALSE
    /\ gStages = <<>>
    /\ gStopped = None

\* A handler that treats the closing of the generator as a failure of the
\* request.
OnClientStopCaught(req, frames) == OnStreamException(req, frames)

\* The client stops consuming after the last of `frames`: the generator is
\* closed at that yield with GeneratorExit (or cancelled there), which the
\* except Exception clauses do not catch, and yields nothing more.
OnClientStop(req, frames) == frames

\* The client stops at frame gStopped.at, and `frames` reach that far.
StopsWithin(frames) == gStopped # None /\ gStopped.at <= Len(frames)

\* The generator is closed at the yield of frame gStopped.at.
Stop(frames, escaped) ==
    /\ gFrames' = OnClientStop(gReq, SubSeq(frames, 1, gStopped.at))
    /\ gpc' = "closed"
    /\ gEscaped' = escaped
    /\ gStopped' = [gStopped EXCEPT !.done = TRUE]

\* The generator goes on to stage pc having yielded `frames`.
Goto(frames, pc) ==
    IF StopsWithin(frames) THEN Stop(frames, gEscaped)
    ELSE /\ gFrames' = frames
         /\ gpc' = pc
         /\ gEscaped' = gEscaped
         /\ gStopped' = gStopped

\* An exception leaves the try block after `frames` were yielded.
Escaped(frames) ==
    IF StopsWithin(OnStreamException(gReq, frames))
    THEN Stop(OnStreamException(gReq, frames), ~StopsWithin(frames))
    ELSE /\ gFrames' = OnStreamException(gReq, frames)
         /\ gpc' = "closed"
         /\ gEscaped' = TRUE
         /\ gStopped' = gStopped

\* The initial chunk and the service initialization: get_llm_client raises
\* without MISTRAL_API_KEY, get_embedding_client when the store cannot be
\* opened.
StreamOpen ==
    /\ gpc = "open"
    /\ LET opened == IF gReq.variant = "openai" THEN <<Frame("role", "")>> ELSE <<>>
       IN  \E init_ok \in BOOLEAN :
              IF ~gReq.key \/ ~init_ok
              THEN Escaped(opened)
              ELSE Goto(opened, IF IsFirstMessage(gReq) THEN "clarify" ELSE "queries")
    /\ UNCHANGED <<gReq, gQueries, gAll, gUnique, gTop, gStages>>
    /\ UNCHANGED <<storeVars, outsideStream>>

\* The first message of a conversation: the clarification request is
\* streamed and the generator returns.
Clarify ==
    /\ gpc = "clarify"
    /\ \E o \in ClarificationOutcomes :
          LET frames == gFrames \o EventFrames(gReq, "status", "analyzing")
                                \o ClarificationChunks(o.chunks)
          IN  IF o.raised THEN Escaped(frames)
              ELSE Goto(frames \o Closing(gReq), "closed")
    /\ UNCHANGED <<gReq, gQueries, gAll, gUnique, gTop, gStages>>
    /\ UNCHANGED <<storeVars, outsideStream>>

\* Step 1: the database queries.  generate_database_queries falls back to
\* the user's query and does not raise.
GenerateQueries ==
    /\ gpc = "queries"
    /\ \E n \in 0..MaxQueries,
          raised \in IF gReq.variant = "openai" THEN BOOLEAN ELSE {FALSE} :
          LET frames == gFrames \o EventFrames(gReq, "status", "generating queries")
              searching == frames \o EventFrames(gReq, "queries", "")
                                  \o EventFrames(gReq, "status", "searching")
          IN  IF raised
              THEN /\ Escaped(frames)
                   /\ gQueries' = gQueries
                   /\ gStages' = Append(gStages, Stage("queries", Len(frames)))
              ELSE /\ Goto(searching, "search")
                   /\ gQueries' = [n |-> n, i |-> 1]
                   /\ gStages' = gStages \o <<Stage("queries", Len(frames)),
                                              Stage("search", Len(searching))>>
    /\ UNCHANGED <<gReq, gAll, gUnique, gTop>>
    /\ UNCHANGED <<storeVars, outsideStream>>

\* A search loop without its try: the failure of one query leaves the
\* generator's try block.
SearchOneAborting ==
    /\ gpc = "search"
    /\ gQueries.i <= gQueries.n
    /\ LET frames == gFrames \o EventFrames(gReq, "status", "searching with query")
           max_results == IF gReq.max_results = 0 THEN RagDatabaseCandidates
                          ELSE gReq.max_results
       IN  IF ValidMaxResults(max_results)
           THEN \E answer \in SearchAnswers :
                   /\ gAll' = gAll \o answer
                   /\ Goto(frames, "search")
           ELSE /\ gAll' = gAll
                /\ Escaped(frames)
    /\ gQueries' = [gQueries EXCEPT !.i = @ + 1]
    /\ UNCHANGED <<gReq, gUnique, gTop, gStages>>
    /\ UNCHANGED <<storeVars, outsideStream>>

\* Step 2, one query: SearchQuery(max_results=...) raises a validation
\* error outside 1..100, which the loop reports and passes over; search()
\* itself does not raise.
SearchOne ==
    /\ gpc = "search"
    /\ gQueries.i <= gQueries.n
    /\ LET frames == gFrames \o EventFrames(gReq, "status", "searching with query")
           max_results == IF gReq.max_results = 0 THEN RagDatabaseCandidates
                          ELSE gReq.max_results
       IN  IF ValidMaxResults(max_results)
           THEN \E answer \in SearchAnswers :
                   /\ gAll' = gAll \o answer
                   /\ Goto(frames, "search")
           ELSE /\ gAll' = gAll
                /\ Goto(frames \o EventFrames(gReq, "error", "searching"), "search")
    /\ gQueries' = [gQueries EXCEPT !.i = @ + 1]
    /\ UNCHANGED <<gReq, gUnique, gTop, gStages>>
    /\ UNCHANGED <<storeVars, outsideStream>>

\* After the last query: the documents are deduplicated by title.
Deduplicate ==
    /\ gpc = "search"
    /\ gQueries.i > gQueries.n
    /\ gUnique' = UniqueDocuments(gAll)
    /\ Goto(gFrames \o EventFrames(gReq, "status", "found"), "embed")
    /\ gStages' = Append(gStages, Stage("dedup", Len(gFrames)))
    /\ UNCHANGED <<gReq, gQueries, gAll, gTop>>
    /\ UNCHANGED <<storeVars, outsideStream>>

\* Step 3: process_and_store_documents when there are unique documents and
\* the generator was not closed at the status event before it.
Embed ==
    /\ gpc = "embed"
    /\ LET frames == gFrames \o EventFrames(gReq, "status", "processing")
       IN  IF gUnique = <<>> \/ StopsWithin(frames)
           THEN /\ Goto(frames, "retrieve")
                /\ UNCHANGED storeVars
           ELSE \E o \in StoreFaults :
                   LET r == ProcessAndStoreDocuments(sStore, AsDocs(gUnique), o)
                   IN  /\ sStore' = r.store
                       /\ sLog' = Append(sLog, [docs |-> AsDocs(gUnique),
                                                lookup |-> r.lookup,
                                                added |-> r.added,
                                                before |-> Len(sStore),
                                                after |-> Len(r.store),
                                                raised |-> r.raised,
                                                adds |-> r.adds,
                                                deleted |-> r.deleted])
                       /\ IF r.raised THEN Escaped(frames)
                          ELSE Goto(frames, "retrieve")
    /\ gStages' = Append(gStages, Stage("embed",
                      Len(gFrames \o EventFrames(gReq, "status", "processing"))))
    /\ UNCHANGED <<gReq, gQueries, gAll, gUnique, gTop>>
    /\ UNCHANGED outsideStream

\* Step 4: similarity_search, which returns [] when it fails.
Retrieve ==
    /\ gpc = "retrieve"
    /\ \E ok \in BOOLEAN :
          gTop' = SimilaritySearch(sStore, RagTopK, gReq.access_filter, ok)
    /\ Goto(gFrames \o EventFrames(gReq, "status", "finding"), "rerank")
    /\ gStages' = Append(gStages, Stage("retrieve",
                      Len(gFrames \o EventFrames(gReq, "status", "finding"))))
    /\ UNCHANGED <<gReq, gQueries, gAll, gUnique>>
    /\ UNCHANGED <<storeVars, outsideStream>>

\* Step 4.5: rerank_documents when the reranker is available and there are
\* documents; it returns the documents reordered, or as they were.
Rerank ==
    /\ gpc = "rerank"
    /\ IF gReq.reranker /\ gTop # <<>>
       THEN /\ gTop' \in {gTop, Reverse(gTop)}
            /\ Goto(gFrames \o EventFrames(gReq, "status", "reranking"), "documents")
            /\ gStages' = Append(gStages, Stage("rerank",
                              Len(gFrames \o EventFrames(gReq, "status", "reranking"))))
       ELSE /\ gTop' = gTop
            /\ Goto(gFrames, "documents")
            /\ gStages' = gStages
    /\ UNCHANGED <<gReq, gQueries, gAll, gUnique>>
    /\ UNCHANGED <<storeVars, outsideStream>>

\* The documents event.  generate_openai_stream calls doc.model_dump() on
\* each top document, which similarity_search returns as a dict: with
\* stream_events and a document to send, an AttributeError is raised.
Documents ==
    /\ gpc = "documents"
    /\ IF gReq.variant = "openai" /\ gReq.events /\ gTop # <<>>
       THEN Escaped(gFrames)
       ELSE Goto(gFrames \o EventFrames(gReq, "documents", "")
                         \o EventFrames(gReq, "status", "generating"),
                 "generate")
    /\ UNCHANGED <<gReq, gQueries, gAll, gUnique, gTop, gStages>>
    /\ UNCHANGED <<storeVars, outsideStream>>

\* Step 5: the answer from the top documents, or the fixed fallback
\* message, then the end of the stream.  generate_rag_response returns an
\* error text and does not raise.
Generate ==
    /\ gpc = "generate"
    /\ IF ~GenerationSkipped(gTop)
       THEN /\ \E n \in 0..MaxChunks,
                  raised \in IF gReq.variant = "openai" THEN BOOLEAN ELSE {FALSE} :
                  IF raised THEN Escaped(gFrames \o ResponseChunks(n))
                  ELSE Goto(gFrames \o ResponseChunks(n) \o Closing(gReq), "closed")
            /\ gStages' = Append(gStages, Stage("generate", Len(gFrames)))
       ELSE /\ Goto(gFrames \o FallbackFrames \o Closing(gReq), "closed")
            /\ gStages' = gStages
    /\ UNCHANGED <<gReq, gQueries, gAll, gUnique, gTop>>
    /\ UNCHANGED <<storeVars, outsideStream>>

Next ==
    \/ StreamOpen
    \/ Clarify
    \/ GenerateQueries
    \/ SearchOne
    \/ Deduplicate
    \/ Embed
    \/ Retrieve
    \/ Rerank
    \/ Documents
    \/ Generate

Spec == StreamInit /\ [][Next]_vars

\* The frame at which the client stops in a model run.
MaxStopAt == 12

\* The same requests with a client that stops consuming at a frame
\* boundary, if the stream gets that far.
StopInit ==
    /\ DedupIdle
    /\ AggIdle
    /\ OthersIdle
    /\ sStore \in {<<>>, ChunksOf(StoreDocs[2])}
    /\ sLog = <<>>
    /\ gReq \in Requests
    /\ gpc = "open"
    /\ gFrames = <<>>
    /\ gQueries = [n |-> 0, i |-> 1]
    /\ gAll = <<>>
    /\ gUnique = <<>>
    /\ gTop = <<>>
    /\ gEscaped = FALSE
    /\ gStages = <<>>
    /\ gStopped \in [at : 1..MaxStopAt, done : {FALSE}]

SpecStop == StopInit /\ [][Next]_vars

\* The terminal marker: data: [DONE] of generate_openai_stream, the complete
\* frame of generate_stream.
IsTerminalMarker(f) == f.kind \in {"done", "complete"}

StreamClosed == gpc = "closed"

EndsWithTerminalMarker ==
    /\ \A i \in 1..(Len(gFrames) - 1) : ~IsTerminalMarker(gFrames[i])
    /\ StreamClosed =>
          /\ gFrames # <<>>
          /\ IsTerminalMarker(gFrames[Len(gFrames)])

\* C1: every stream of the orchestrator ends with its terminal marker as
\* the last frame, on every path, and no frame follows a terminal marker.
C1_StreamEndsWithTerminalMarker == EndsWithTerminalMarker

\* What the code keeps of C1: the streams of generate_openai_stream end
\* with data: [DONE], and nothing follows it.
C1_OpenAIStreamEndsWithDone ==
    gReq.variant = "openai" => EndsWithTerminalMarker

IsEscapeError(f) == f = Frame("error", "processing")

OneErrorThenTerminalMarker ==
    /\ Len(gFrames) >= 2
    /\ IsEscapeError(gFrames[Len(gFrames) - 1])
    /\ IsTerminalMarker(gFrames[Len(gFrames)])
    /\ \A i \in 1..(Len(gFrames) - 2) : ~IsEscapeError(gFrames[i])

\* C2: when an exception escapes a stage, the stream holds exactly one
\* error event for it, the terminal marker comes right after it, and no
\* status, documents or response frame comes after the error event.
C2_EscapeIsOneErrorThenTerminalMarker ==
    gEscaped => OneErrorThenTerminalMarker

\* What the code keeps of C2: in generate_openai_stream the error chunk is
\* the only one and data: [DONE] follows it; in generate_stream the error
\* frame is the only one and the last frame.
C2_EscapeIsOneErrorLast ==
    gEscaped =>
        IF gReq.variant = "openai" THEN OneErrorThenTerminalMarker
        ELSE /\ gFrames # <<>>
             /\ IsEscapeError(gFrames[Len(gFrames)])
             /\ \A i \in 1..(Len(gFrames) - 1) : ~IsEscapeError(gFrames[i])

(***************************************************************************)
(* Two process_and_store_documents calls on the one event loop             *)
(***************************************************************************)

\* A coroutine with an await between reading the existing hashes and adding.
SuspensionPointsWithAwait == {"idle", "looked", "done"}

\* Where a coroutine that calls process_and_store_documents can be
\* suspended.  The body has no await: vector_store.get() and add_documents
\* are plain calls, so a coroutine that has read the existing hashes keeps
\* the event loop until the call returns or raises.
SuspensionPoints == {"idle", "done"}

\* The event loop runs coroutine c: every other coroutine is suspended.
MayRun(c) == \A d \in Coroutines \ {c} : cpc[d] \in SuspensionPoints

HashesOf(chunks) == {chunks[i].hash : i \in 1..Len(chunks)}

ConcInit ==
    /\ LaterIdle
    /\ DedupIdle
    /\ AggIdle
    /\ StreamIdle
    /\ RerankIdle
    /\ FoundIdle
    /\ sStore = <<>>
    /\ sLog = <<>>
    /\ cpc = [c \in Coroutines |-> "idle"]
    /\ cNew = [c \in Coroutines |-> [docs |-> <<>>, new |-> <<>>]]
    /\ cLook = [c \in Coroutines |-> "none"]
    /\ cIns = [c \in Coroutines |-> {}]

\* Coroutine c enters process_and_store_documents: the documents are split,
\* the existing hashes are read and new_docs is filtered.
ConcLookup(c) ==
    /\ cpc[c] = "idle"
    /\ MayRun(c)
    /\ \E docs \in Batches \ {<<>>}, get \in {"ok", "raise"} :
          /\ cNew' = [cNew EXCEPT ![c] =
                [docs |-> docs,
                 new |-> NewDocs(SplitDocs(docs),
                                 IF get = "ok" THEN ExistingHashes(sStore) ELSE {})]]
          /\ cLook' = [cLook EXCEPT ![c] = get]
    /\ cpc' = [cpc EXCEPT ![c] = "looked"]
    /\ UNCHANGED <<sStore, sLog, cIns>>
    /\ UNCHANGED outsideConc

\* Coroutine c adds its new_docs and the call returns or raises.
ConcInsert(c) ==
    /\ cpc[c] = "looked"
    /\ MayRun(c)
    /\ \E o \in {f \in StoreFaults : f.get = cLook[c]} :
          LET r == AddNewDocs(sStore, cNew[c].new, o)
          IN  /\ sStore' = r.store
              /\ cIns' = [cIns EXCEPT ![c] =
                    IF r.added > 0 THEN HashesOf(cNew[c].new) ELSE {}]
    /\ cpc' = [cpc EXCEPT ![c] = "done"]
    /\ UNCHANGED <<sLog, cNew, cLook>>
    /\ UNCHANGED outsideConc

ConcNext == \E c \in Coroutines : ConcLookup(c) \/ ConcInsert(c)

SpecConc == ConcInit /\ [][ConcNext]_vars

\* C11 as claimed: the existing-hash lookup and the insert are not atomic;
\* while one call is between its lookup and its insert, a concurrent call
\* can run its own lookup (and so see the hash as not present).
C11_LookupInsertNotAtomic ==
    \A c, d \in Coroutines :
        (c # d /\ cpc[c] = "looked" /\ cpc[d] = "idle") => ENABLED ConcLookup(d)

\* C11 amended: process_and_store_documents has no suspension point between
\* its lookup and its insert, so concurrent calls on the event loop run one
\* after the other: at no time are two calls between lookup and insert, and
\* two calls whose lookups returned never both add chunks of one document.
C11_LookupInsertAtomic ==
    \A c, d \in Coroutines :
        c # d =>
            /\ ~(cpc[c] = "looked" /\ cpc[d] = "looked")
            /\ (cLook[c] = "ok" /\ cLook[d] = "ok") => cIns[c] \cap cIns[d] = {}

\* C11 witness: two calls for overlapping document sets have both returned,
\* the first added the shared document and the second did not add it again.
C11_Witness ==
    \E c, d \in Coroutines :
        /\ c # d
        /\ cpc[c] = "done" /\ cpc[d] = "done"
        /\ cLook[c] = "ok" /\ cLook[d] = "ok"
        /\ cIns[c] # {}
        /\ cIns[c] \cap HashesOf(SplitDocs(cNew[d].docs)) # {}
        /\ cIns[c] \cap cIns[d] = {}
        /\ cIns[d] # {}

(***************************************************************************)
(* EmbeddingClient: similarity_search on a collection that is being filled *)
(***************************************************************************)

\* Chunks in the collection before a further call adds to it.
MaxStored == 2

SearchInit ==
    /\ LaterIdle
    /\ DedupIdle
    /\ AggIdle
    /\ StreamIdle
    /\ ConcIdle
    /\ RerankIdle
    /\ sStore = <<>>
    /\ sLog = <<>>
    /\ sFound = None

\* One process_and_store_documents call on the collection.
StoreFill ==
    /\ Len(sStore) < MaxStored
    /\ \E docs \in Batches, o \in StoreFaults :
          sStore' = ProcessAndStoreDocuments(sStore, docs, o).store
    /\ UNCHANGED <<sLog, sFound>>
    /\ UNCHANGED outsideStore

\* One similarity_search call: k results at most, under an access filter or
\* none ("any" is no filter either), the vector store answering or raising.
StoreSearch ==
    /\ UNCHANGED outsideFound
    /\ \E k \in {1, RagTopK}, f \in {"none", "open", "restricted", "any"},
          ok \in BOOLEAN :
          sFound' = [filter |-> f, k |-> k, ok |-> ok, store |-> sStore,
                     results |-> SimilaritySearch(sStore, k, f, ok),
                     left |-> sStore']

SearchNext == StoreFill \/ StoreSearch

SpecSearch == SearchInit /\ [][SearchNext]_vars

AccessesOf(chunks) == {chunks[i].access : i \in 1..Len(chunks)}

\* C12: similarity_search with access_filter "open" returns only documents
\* stored with access "open", with "restricted" only documents stored with
\* access "restricted"; every result is a chunk of the collection.
C12_AccessFilterRespected ==
    sFound # None =>
        /\ sFound.filter \in {"open", "restricted"} =>
              AccessesOf(sFound.results) \subseteq {sFound.filter}
        /\ \A i \in 1..Len(sFound.results) :
              \E j \in 1..Len(sFound.store) : sFound.store[j] = sFound.results[i]

\* C12 witness: the collection holds open and restricted chunks and a
\* search filtered to "open" returned some of them.
C12_Witness ==
    /\ sFound # None
    /\ sFound.filter = "open"
    /\ sFound.results # <<>>
    /\ AccessesOf(sFound.store) = {"open", "restricted"}

\* The other half of C12: a search without filter that returned documents
\* of both access types.
C12_UnfilteredReturnsBoth ==
    /\ sFound # None
    /\ sFound.filter = "none"
    /\ AccessesOf(sFound.results) = {"open", "restricted"}

(***************************************************************************)
(* The reranker adapter: CohereReranker                                    *)
(*                                                                         *)
(* One CohereReranker instance (get_cohere_reranker keeps a single one)    *)
(* serves a sequence of rerank_documents calls.  The provider's client is  *)
(* a library: a call to it raises or returns a list of results, each an    *)
(* index and a relevance score, and nothing is assumed of the indexes.     *)
(***************************************************************************)

MaxRerankCalls == 2

\* The value of a key a document dict does not have.
NoScore == 0 - 1

RerankDoc(id, score) == [id |-> id, score |-> score, rerank_score |-> NoScore]

\* The document lists handed to rerank_documents.
RerankLists ==
    {<<>>,
     <<RerankDoc(1, 70)>>,
     <<RerankDoc(1, 70), RerankDoc(2, 40)>>,
     <<RerankDoc(1, 70), RerankDoc(2, 40), RerankDoc(3, 10)>>}

\* top_n as passed by the caller; 0 stands for None.
TopNs == {0, 1, 2, 10}

ProviderScores == {90, 50}

\* What the provider may answer for n documents: it raises, or it returns
\* no, one or two results whose indexes need not be positions of the list.
RerankIndexes(n) == {0 - (n + 1), 0 - 1, n} \cup (0..(n - 1))

RerankResults(n) == [index : RerankIndexes(n), relevance_score : ProviderScores]

RerankResponses(n) ==
    {<<>>}
    \cup {<<a>> : a \in RerankResults(n)}
    \cup {<<a, b>> : a \in RerankResults(n), b \in RerankResults(n)}

ProviderOutcomes(n) ==
    {[kind |-> "raise", results |-> <<>>]}
    \cup {[kind |-> "ok", results |-> r] : r \in RerankResponses(n)}

NotCalled == [kind |-> "none", results |-> <<>>]

\* __init__: the client exists when the key is set and Client() returned.
CohereRerankerInit(key, ctor_ok) == key /\ ctor_ok

IsAvailable(client) == client

\* top_n or len(documents)
SentTopN(top_n, documents) == IF top_n # 0 THEN top_n ELSE Len(documents)

\* documents[index] of a Python list: a negative index counts from the end,
\* an index outside -len..len-1 raises IndexError.
PyIndexable(list, index) == 0 - Len(list) <= index /\ index <= Len(list) - 1

PyItem(list, index) ==
    IF index >= 0 THEN list[index + 1] ELSE list[Len(list) + index + 1]

\* A variant of the early returns that never returns early.
ReturnsEarlyNever(client, documents) == FALSE

\* The two early returns of rerank_documents.
ReturnsEarly(client, documents) == ~IsAvailable(client) \/ documents = <<>>

\* A variant of the loop that leaves the scores of the copies alone.
RerankedCopyUnscored(documents, result) == PyItem(documents, result.index)

\* One round of the loop: the copy of documents[result.index] with score
\* and rerank_score set to the result's relevance score.
RerankedCopy(documents, result) ==
    [PyItem(documents, result.index) EXCEPT
        !.score = result.relevance_score,
        !.rerank_score = result.relevance_score]

RerankReturn(returned, calls, outcome, sent) ==
    [returned |-> returned, raised |-> FALSE, provider_calls |-> calls,
     outcome |-> outcome, sent_top_n |-> sent]

\* rerank_documents.  Every exception of the provider call and of the loop
\* is caught and the documents given are returned; the loop works on
\* copies, so these are as they were.
RerankDocuments(client, documents, top_n, o) ==
    IF ReturnsEarly(client, documents)
    THEN RerankReturn(documents, 0, NotCalled, 0)
    ELSE IF ~client
    THEN RerankReturn(documents, 0, NotCalled, 0)
    ELSE IF o.kind = "raise"
    THEN RerankReturn(documents, 1, o, SentTopN(top_n, documents))
    ELSE IF \E i \in 1..Len(o.results) : ~PyIndexable(documents, o.results[i].index)
    THEN RerankReturn(documents, 1, o, SentTopN(top_n, documents))
    ELSE RerankReturn([i \in 1..Len(o.results) |-> RerankedCopy(documents, o.results[i])],
                      1, o, SentTopN(top_n, documents))

\* A variant of the call that gives the client up when the provider fails.
ClientDroppedOnFailure(client, o) == client /\ o.kind # "raise"

\* self.client after a rerank_documents call: the method does not assign it.
ClientAfterCall(client, o) == client

RerankInit ==
    /\ LaterIdle
    /\ DedupIdle
    /\ AggIdle
    /\ StoreIdle
    /\ StreamIdle
    /\ ConcIdle
    /\ FoundIdle
    /\ \E key \in BOOLEAN, ctor_ok \in BOOLEAN :
          /\ rClient = CohereRerankerInit(key, ctor_ok)
          /\ rInitial = IsAvailable(CohereRerankerInit(key, ctor_ok))
    /\ rCalls = 0
    /\ rLast = None

\* One rerank_documents call on the instance.
RerankCall ==
    /\ rCalls < MaxRerankCalls
    /\ \E documents \in RerankLists, top_n \in TopNs :
         \E o \in ProviderOutcomes(Len(documents)) :
            LET r == RerankDocuments(rClient, documents, top_n, o)
            IN  /\ rLast' = [documents |-> documents, top_n |-> top_n,
                             returned |-> r.returned, raised |-> r.raised,
                             provider_calls |-> r.provider_calls,
                             outcome |-> r.outcome, sent_top_n |-> r.sent_top_n]
                /\ rClient' = IF r.provider_calls = 0 THEN rClient
                              ELSE ClientAfterCall(rClient, o)
    /\ rCalls' = rCalls + 1
    /\ UNCHANGED rInitial
    /\ UNCHANGED outsideRerank

RerankNext == RerankCall

SpecRerank == RerankInit /\ [][RerankNext]_vars

RerankCalled == rLast # None

\* C14: when the reranker is unavailable or the list is empty,
\* rerank_documents returns a list equal to its input and does not call the
\* provider.
C14_UnavailableOrEmptyIsIdentity ==
    (RerankCalled /\ (~rInitial \/ rLast.documents = <<>>)) =>
        /\ rLast.returned = rLast.documents
        /\ rLast.provider_calls = 0
        /\ ~rLast.raised

C14_Witness ==
    /\ RerankCalled
    /\ ~rInitial
    /\ Len(rLast.documents) = 2
    /\ rLast.returned = rLast.documents

C14_WitnessEmpty ==
    /\ RerankCalled
    /\ rInitial
    /\ rLast.documents = <<>>
    /\ rLast.returned = <<>>

ProviderRaised == RerankCalled /\ rLast.outcome.kind = "raise"

ProviderReturned == RerankCalled /\ rLast.outcome.kind = "ok"

\* The positions of the list, as the provider numbers them.
InList(index) == 0 <= index /\ index <= Len(rLast.documents) - 1

\* The provider's response names an index that is no position of the list.
ResponseMalformed ==
    /\ ProviderReturned
    /\ \E i \in 1..Len(rLast.outcome.results) : ~InList(rLast.outcome.results[i].index)

\* The loop raised IndexError at some result.
LoopRaised ==
    /\ ProviderReturned
    /\ \E i \in 1..Len(rLast.outcome.results) :
          ~PyIndexable(rLast.documents, rLast.outcome.results[i].index)

\* C15: rerank_documents never raises, and when the provider call fails or
\* its response names an index outside the list it returns the documents it
\* was given, in their order and with their contents and scores.
C15_FailureOrMalformedIsIdentity ==
    RerankCalled =>
        /\ ~rLast.raised
        /\ (ProviderRaised \/ ResponseMalformed) => rLast.returned = rLast.documents

\* What the code keeps of C15: it never raises, and when the provider call
\* or the indexing of the list raises it returns the documents it was given.
C15_RaisedInsideIsIdentity ==
    RerankCalled =>
        /\ ~rLast.raised
        /\ (ProviderRaised \/ LoopRaised) => rLast.returned = rLast.documents

\* A response with a negative index that Python accepts is materialized.
C15_NegativeIndexMaterialized ==
    /\ ResponseMalformed
    /\ ~LoopRaised
    /\ rLast.returned # rLast.documents

\* The response the provider's contract promises: min(top_n, n) results at
\* distinct positions of the list.
ResponseWellFormed ==
    /\ ProviderReturned
    /\ ~ResponseMalformed
    /\ Len(rLast.outcome.results) =
         (IF rLast.sent_top_n <= Len(rLast.documents)
          THEN rLast.sent_top_n ELSE Len(rLast.documents))
    /\ \A i, j \in 1..Len(rLast.outcome.results) :
          rLast.outcome.results[i].index = rLast.outcome.results[j].index => i = j

\* min(top_n, number supplied), top_n absent meaning all.
AskedFor ==
    IF rLast.top_n # 0 /\ rLast.top_n <= Len(rLast.documents)
    THEN rLast.top_n ELSE Len(rLast.documents)

C17_AvailabilityFixedAtConstruction == IsAvailable(rClient) = rInitial

C17_Witness ==
    /\ rCalls = MaxRerankCalls
    /\ ProviderRaised
    /\ rInitial
    /\ IsAvailable(rClient)

(***************************************************************************)
(* The steps of the streaming orchestrator                                 *)
(***************************************************************************)

Entered(stage) == \E i \in 1..Len(gStages) : gStages[i].stage = stage

At(stage) == gStages[CHOOSE i \in 1..Len(gStages) : gStages[i].stage = stage].at

EventsStreamed == gReq.variant = "query" \/ gReq.events

CompletedNormally == StreamClosed /\ ~gEscaped

FirstMessageRequest == gReq.variant = "openai" /\ gReq.first

\* No step of the pipeline has run: no queries, no search results, no
\* store call, no retrieved documents.
NoPipelineStep ==
    /\ gStages = <<>>
    /\ gQueries = [n |-> 0, i |-> 1]
    /\ gAll = <<>>
    /\ gUnique = <<>>
    /\ gTop = <<>>
    /\ sLog = <<>>

ClarificationPrefix(n) ==
    <<Frame("role", "")>>
    \o (IF gReq.events THEN <<Frame("status", "analyzing")>> ELSE <<>>)
    \o [i \in 1..n |-> Frame("response_chunk", "clarification")]

\* C18: a streaming request with exactly one user message runs no query
\* generation, search, embedding, retrieval or reranking and emits no
\* documents or context-based response frame; its stream is the
\* clarification response followed by the terminal marker, and when an
\* exception ends it, what was streamed of it followed by the error event
\* and the terminal marker.
C18_FirstMessageOnlyClarifies ==
    FirstMessageRequest =>
        /\ NoPipelineStep
        /\ \A i \in 1..Len(gFrames) :
              /\ gFrames[i].kind \notin {"queries", "documents"}
              /\ gFrames[i].kind = "response_chunk" => gFrames[i].msg = "clarification"
              /\ gFrames[i].kind = "status" => gFrames[i].msg = "analyzing"
        /\ CompletedNormally =>
              \E n \in 0..MaxChunks :
                 gFrames = ClarificationPrefix(n) \o <<Frame("final", ""), Frame("done", "")>>
        /\ (StreamClosed /\ gEscaped) =>
              \E n \in 0..MaxChunks :
                 \/ gFrames = <<Frame("role", ""), Frame("error", "processing"), Frame("done", "")>>
                 \/ gFrames = ClarificationPrefix(n)
                                \o <<Frame("error", "processing"), Frame("done", "")>>

C18_Witness ==
    /\ FirstMessageRequest
    /\ gReq.events
    /\ CompletedNormally
    /\ gFrames = ClarificationPrefix(MaxChunks) \o <<Frame("final", ""), Frame("done", "")>>

\* similarity_search has returned no document.
RetrievedNothing == Entered("retrieve") /\ gpc # "retrieve" /\ gTop = <<>>

FallbackCount == Cardinality({i \in 1..Len(gFrames) : gFrames[i] = Frame("response_chunk", "fallback")})

\* Reranking and answer generation are skipped, and the stream ends
\* normally with the one fallback message before the terminal marker.
FallbackEndsNormally ==
    /\ ~Entered("rerank")
    /\ ~Entered("generate")
    /\ ~gEscaped
    /\ \A i \in 1..Len(gFrames) :
          gFrames[i].kind = "response_chunk" => gFrames[i].msg = "fallback"
    /\ StreamClosed =>
          /\ FallbackCount = 1
          /\ SubSeq(gFrames, Len(gFrames) - Len(Closing(gReq)), Len(gFrames))
                = FallbackFrames \o Closing(gReq)

\* C19: a request whose similarity search returns no document skips
\* reranking and answer generation, emits exactly one fallback message
\* before the terminal marker, emits no error event anywhere in the stream
\* and terminates normally.
C19_ZeroDocumentsNoErrorAnywhere ==
    RetrievedNothing =>
        /\ FallbackEndsNormally
        /\ \A i \in 1..Len(gFrames) : gFrames[i].kind # "error"

\* C19 as the code has it: no error event is emitted from the retrieval
\* on; the error events of failed sub-query searches may precede it.
C19_ZeroDocumentsFallback ==
    RetrievedNothing =>
        /\ FallbackEndsNormally
        /\ \A i \in 1..Len(gFrames) :
              gFrames[i].kind = "error" =>
                 (gFrames[i] = Frame("error", "searching") /\ i <= At("dedup"))

C19_Witness ==
    /\ RetrievedNothing
    /\ StreamClosed
    /\ FallbackCount = 1
    /\ \E i \in 1..Len(gFrames) : gFrames[i] = Frame("error", "searching")

\* The steps in the order of the pipeline.
StageOrder == <<"queries", "search", "dedup", "embed", "retrieve", "rerank", "generate">>

StageRank(stage) == CHOOSE r \in 1..Len(StageOrder) : StageOrder[r] = stage

\* The status event of a step; deduplication has none, only its result.
StatusOf ==
    [queries |-> "generating queries", search |-> "searching",
     embed |-> "processing", retrieve |-> "finding", rerank |-> "reranking",
     generate |-> "generating"]

\* Frame f is yielded after the work of step `from` started and, when step
\* `to` was entered, before its work started.
YieldedBetween(f, from, to) ==
    \E k \in 1..Len(gFrames) :
       /\ gFrames[k] = f
       /\ At(from) < k
       /\ Entered(to) => k <= At(to)

MaxRecords == 2

\* A field of a raw record that is not there, and one that is there as None.
Absent == "<absent>"
Null == "<null>"

\* SearchResult(...) built without the access keyword.
Unset == "<unset>"

ConnectorNames == {"arxiv", "semantic_scholar"}

\* The raw records of a provider, by what normalisation reads of them: the
\* identifier and the title (a string, padded or not, None, or missing), the
\* remaining fields (usable, or such that reading them raises, as iterating
\* authors = None does), and the provider's open-access signal.  Every arXiv
\* record is a preprint.
RawRecords(connector) ==
    [id : {"p1", Absent, Null},
     title : {"T1", " T1 ", Absent, Null},
     rest : {"ok", "bad"},
     oa : IF connector = "arxiv" THEN {TRUE} ELSE BOOLEAN]

RawLists(connector) ==
    UNION {[1..n -> RawRecords(connector)] : n \in 0..MaxRecords}

AccessInfo(is_open_access, access_type) ==
    [is_open_access |-> is_open_access, access_type |-> access_type]

\* DatabaseConnector._clean_text: "" for a falsy text, else the words joined
\* by single spaces.
CleanText(text) ==
    IF text = Null \/ text = "" THEN ""
    ELSE IF text = " T1 " THEN "T1"
    ELSE text

\* SearchResult._derive_access_from_access_info, run after the fields are
\* set: a value that is already "open" or "restricted" is kept.
DeriveAccessFromAccessInfo(access, ai) ==
    IF access \in {"open", "restricted"} THEN access
    ELSE IF ai.is_open_access \/ ai.access_type = "open_access" THEN "open"
    ELSE "restricted"

\* The field declaration access: AccessType = "restricted".
AccessField(given) == IF given = Unset THEN "restricted" ELSE given

IsStr(v) == v # Absent /\ v # Null

NormalizeRaised == [raised |-> TRUE]

\* SearchResult(id=..., title=..., ...): validation raises unless id and title
\* are strings; then the after-validator runs on the defaulted fields.
NewSearchResult(id, title, source_database, ai, given) ==
    IF IsStr(id) /\ IsStr(title)
    THEN [raised |-> FALSE, id |-> id, title |-> title,
          source_database |-> source_database, access_info |-> ai,
          access |-> DeriveAccessFromAccessInfo(AccessField(given), ai)]
    ELSE NormalizeRaised

\* getattr(raw_result, name, default) and raw_result.get(name, default): the
\* default only for a field that is not there.
GetOr(v, default) == IF v = Absent THEN default ELSE v

\* SemanticScholarConnector._determine_access_info_ss
DetermineAccessInfoSs(raw) ==
    AccessInfo(raw.oa, IF raw.oa THEN "open_access" ELSE "restricted")

\* The try block of _normalize_result.  arXiv reads the attributes of the
\* record, so a missing one raises; Semantic Scholar reads its keys with
\* defaults.  The source database of a Semantic Scholar record with no venue
\* and no external identifier is "Semantic Scholar".
NormalizeMain(connector, raw) ==
    IF raw.rest = "bad" THEN NormalizeRaised
    ELSE IF connector = "arxiv"
    THEN IF raw.id = Absent \/ raw.title = Absent THEN NormalizeRaised
         ELSE NewSearchResult(raw.id, CleanText(raw.title), "arxiv",
                              AccessInfo(TRUE, "open_access"), Unset)
    ELSE NewSearchResult(GetOr(raw.id, "unknown"),
                         CleanText(GetOr(raw.title, "Untitled")),
                         "Semantic Scholar", DetermineAccessInfoSs(raw), Unset)

\* The except block of _normalize_result: the minimal result.
NormalizeMinimal(connector, raw) ==
    IF connector = "arxiv"
    THEN NewSearchResult(GetOr(raw.id, "unknown"), GetOr(raw.title, "Unknown Title"),
                         "arxiv", AccessInfo(TRUE, "open_access"), Unset)
    ELSE NewSearchResult(GetOr(raw.id, "unknown"), GetOr(raw.title, "Unknown Title"),
                         "unknown", AccessInfo(FALSE, "unknown"), Unset)

NormalizeResult(connector, raw) ==
    IF ~NormalizeMain(connector, raw).raised THEN NormalizeMain(connector, raw)
    ELSE NormalizeMinimal(connector, raw)

\* search(): the provider's answer normalised record by record inside one
\* try; anything raised on the way, by the provider or by _normalize_result,
\* ends in the except clause, which returns [].
ConnectorSearch(connector, answer) ==
    IF ~answer.ok THEN <<>>
    ELSE IF \E i \in 1..Len(answer.records) :
              NormalizeResult(connector, answer.records[i]).raised
    THEN <<>>
    ELSE [i \in 1..Len(answer.records) |->
              NormalizeResult(connector, answer.records[i])]

ConnInit ==
    /\ EarlierIdle
    /\ HealthIdle
    /\ SingleIdle
    /\ EndpointIdle
    /\ \E connector \in ConnectorNames :
          kRaw \in [connector : {connector}, ok : BOOLEAN,
                    records : RawLists(connector)]
    /\ kOut = None

ConnSearch ==
    /\ kOut = None
    /\ kOut' = [results |-> ConnectorSearch(kRaw.connector, kRaw)]
    /\ kRaw' = kRaw
    /\ UNCHANGED outsideConn

ConnNext == ConnSearch

SpecConnector == ConnInit /\ [][ConnNext]_vars

Searched == kOut # None /\ kRaw.ok

WellFormed(connector, raw) == ~NormalizeMain(connector, raw).raised

\* The result of the well-formed record at position i is returned at i.
WellFormedReturned ==
    \A i \in 1..Len(kRaw.records) :
        WellFormed(kRaw.connector, kRaw.records[i]) =>
            /\ i <= Len(kOut.results)
            /\ kOut.results[i] = NormalizeMain(kRaw.connector, kRaw.records[i])

\* C22: a malformed raw record does not abort the batch: search returns one
\* result per raw record, and the results of the well-formed records are
\* all among them.
C22_MalformedRecordDoesNotAbortBatch ==
    Searched =>
        /\ Len(kOut.results) = Len(kRaw.records)
        /\ WellFormedReturned

\* The minimal result can be built: the record's id and title, where they
\* are there at all, are strings.
MinimalConstructible(raw) == raw.id # Null /\ raw.title # Null

\* What the code keeps: a batch whose malformed records all still carry a
\* usable id and title is returned whole, with the minimal result in the
\* place of each malformed record.
C22_PlaceholderWhenIdAndTitleUsable ==
    (Searched /\ \A i \in 1..Len(kRaw.records) :
                     WellFormed(kRaw.connector, kRaw.records[i])
                        \/ MinimalConstructible(kRaw.records[i])) =>
        /\ Len(kOut.results) = Len(kRaw.records)
        /\ WellFormedReturned
        /\ \A i \in 1..Len(kRaw.records) :
              ~WellFormed(kRaw.connector, kRaw.records[i]) =>
                  /\ kOut.results[i].id = GetOr(kRaw.records[i].id, "unknown")
                  /\ kOut.results[i].title
                        = GetOr(kRaw.records[i].title, "Unknown Title")

\* A batch of a well-formed record and a malformed one without a usable
\* title came back empty.
C22_BatchLost ==
    /\ Searched
    /\ Len(kRaw.records) = 2
    /\ WellFormed(kRaw.connector, kRaw.records[1])
    /\ kRaw.records[2].rest = "bad"
    /\ kRaw.records[2].title = Null
    /\ kOut.results = <<>>

\* The binary projection of an AccessInfo.
Projection(ai) == IF ai.access_type = "open_access" THEN "open" ELSE "restricted"

\* C25: a SearchResult created without an explicit access value has its
\* access derived from its AccessInfo: open_access gives "open", every other
\* access type gives "restricted".
C25_AccessDerivedFromAccessInfo ==
    Searched =>
        \A i \in 1..Len(kOut.results) :
            kOut.results[i].access = Projection(kOut.results[i].access_info)

\* What the code keeps: the access of a result built without the keyword is
\* the field's default, whatever its AccessInfo says.
C25_AccessIsTheDefault ==
    Searched =>
        \A i \in 1..Len(kOut.results) : kOut.results[i].access = "restricted"

\* An open-access arXiv result that is marked restricted.
C25_OpenAccessMarkedRestricted ==
    /\ Searched
    /\ kRaw.connector = "arxiv"
    /\ Len(kOut.results) > 0
    /\ kOut.results[1].access_info.access_type = "open_access"
    /\ kOut.results[1].access = "restricted"

(***************************************************************************)
(* Connector health and FederatedSearchService.get_database_status         *)
(***************************************************************************)

MaxStatusCalls == 2

\* last_error = None, response_time_ms = None
NoError == "<none>"
NoLatency == 0 - 1

Latencies == {10, 20}
HealthErrors == {"e1", "e2"}

\* DatabaseConnector.__init__
NewConnector ==
    [is_available |-> TRUE, last_error |-> NoError, response_time_ms |-> NoLatency]

\* What one health check meets: _perform_health_check returning after some
\* milliseconds ("ok") or raising ("fail"), or health_check itself raising, as
\* an overriding method of a connector may ("raise").
HealthOutcomes ==
    [kind : {"ok"}, latency : Latencies, error : {NoError}]
        \cup [kind : {"fail", "raise"}, latency : {NoLatency}, error : HealthErrors]

\* DatabaseConnector.health_check: the connector afterwards and the value
\* returned.  The except branch does not touch response_time_ms.
HealthCheck(conn, o) ==
    IF o.kind = "ok"
    THEN [conn |-> [is_available |-> TRUE, last_error |-> NoError,
                    response_time_ms |-> o.latency],
          raised |-> FALSE, healthy |-> TRUE]
    ELSE IF o.kind = "fail"
    THEN [conn |-> [is_available |-> FALSE, last_error |-> o.error,
                    response_time_ms |-> conn.response_time_ms],
          raised |-> FALSE, healthy |-> FALSE]
    ELSE [conn |-> conn, raised |-> TRUE, healthy |-> FALSE]

DatabaseStatus(name, available, response_time_ms, error_message) ==
    [name |-> name, available |-> available,
     response_time_ms |-> response_time_ms, error_message |-> error_message]

\* The body of the loop of get_database_status for one connector.
StatusOfConnector(name, conn, o) ==
    IF HealthCheck(conn, o).raised
    THEN DatabaseStatus(name, FALSE, NoLatency, o.error)
    ELSE DatabaseStatus(name, HealthCheck(conn, o).healthy,
                        HealthCheck(conn, o).conn.response_time_ms,
                        HealthCheck(conn, o).conn.last_error)

\* The first connector whose health check raises, or one past the last.
FirstRaising(outcomes) ==
    IF \E i \in 1..Len(outcomes) : outcomes[i].kind = "raise"
    THEN CHOOSE i \in 1..Len(outcomes) :
            /\ outcomes[i].kind = "raise"
            /\ \A j \in 1..(i - 1) : outcomes[j].kind # "raise"
    ELSE Len(outcomes) + 1

\* get_database_status without the try around the health check: the loop
\* ends at the first check that raises.
GetDatabaseStatusUnguarded(conns, outcomes) ==
    [conns |-> [i \in 1..Len(conns) |->
                    IF i < FirstRaising(outcomes)
                    THEN HealthCheck(conns[i], outcomes[i]).conn ELSE conns[i]],
     statuses |-> [i \in 1..(FirstRaising(outcomes) - 1) |->
                      StatusOfConnector(AvailableDatabases[i], conns[i], outcomes[i])]]

\* get_database_status: the connectors are checked one after the other, a
\* status appended for each.
GetDatabaseStatus(conns, outcomes) ==
    [conns |-> [i \in 1..Len(conns) |-> HealthCheck(conns[i], outcomes[i]).conn],
     statuses |-> [i \in 1..Len(conns) |->
                      StatusOfConnector(AvailableDatabases[i], conns[i], outcomes[i])]]

HealthInit ==
    /\ EarlierIdle
    /\ ConnIdle
    /\ SingleIdle
    /\ EndpointIdle
    /\ hConn = [i \in 1..Len(AvailableDatabases) |-> NewConnector]
    /\ hChecks = [i \in 1..Len(AvailableDatabases) |-> <<>>]
    /\ hReport = None

\* One request to /databases/status on the module-level service.
DatabaseStatusRequest ==
    /\ \A i \in 1..Len(hChecks) : Len(hChecks[i]) < MaxStatusCalls
    /\ \E outcomes \in [1..Len(AvailableDatabases) -> HealthOutcomes] :
          /\ hConn' = GetDatabaseStatus(hConn, outcomes).conns
          /\ hReport' = [statuses |-> GetDatabaseStatus(hConn, outcomes).statuses]
          /\ hChecks' = [i \in 1..Len(hChecks) |-> Append(hChecks[i], outcomes[i])]
    /\ UNCHANGED outsideHealth

HealthNext == DatabaseStatusRequest

SpecHealth == HealthInit /\ [][HealthNext]_vars

Checked(i) == Len(hChecks[i]) > 0
LastCheck(i) == hChecks[i][Len(hChecks[i])]

RefreshedAfterTrue(i) ==
    LastCheck(i).kind = "ok" =>
        /\ hConn[i].is_available
        /\ hConn[i].last_error = NoError
        /\ hConn[i].response_time_ms = LastCheck(i).latency
        /\ hReport.statuses[i].response_time_ms = LastCheck(i).latency

RefreshedAfterFalse(i) ==
    LastCheck(i).kind = "fail" =>
        /\ ~hConn[i].is_available
        /\ hConn[i].last_error = LastCheck(i).error
        /\ hReport.statuses[i].error_message = LastCheck(i).error

\* C23: every health check refreshes the connector's status: after True the
\* connector is available, its last error cleared and its response time that
\* of this check; after False it is unavailable with this check's error, and
\* the status reported carries no latency of an earlier check.
C23_HealthCheckRefreshesStatus ==
    \A i \in 1..Len(hChecks) :
        Checked(i) =>
            /\ RefreshedAfterTrue(i)
            /\ RefreshedAfterFalse(i)
            /\ LastCheck(i).kind = "fail" =>
                  hReport.statuses[i].response_time_ms = NoLatency

\* The latency of the last check of connector i that returned True among
\* its first n checks.
RECURSIVE LastLatency(_, _)
LastLatency(i, n) ==
    IF n = 0 THEN NoLatency
    ELSE IF hChecks[i][n].kind = "ok" THEN hChecks[i][n].latency
    ELSE LastLatency(i, n - 1)

\* What the code keeps: availability and last error are those of the last
\* check; the response time is that of the last check that succeeded.
C23_LatencyOfLastSuccess ==
    \A i \in 1..Len(hChecks) :
        Checked(i) =>
            /\ RefreshedAfterTrue(i)
            /\ RefreshedAfterFalse(i)
            /\ hConn[i].response_time_ms = LastLatency(i, Len(hChecks[i]))
            /\ LastCheck(i).kind = "fail" =>
                  hReport.statuses[i].response_time_ms = LastLatency(i, Len(hChecks[i]))

\* A failed check reported with the latency of the successful one before it.
C23_StaleLatencyReported ==
    \E i \in 1..Len(hChecks) :
        /\ Len(hChecks[i]) = 2
        /\ hChecks[i][1].kind = "ok"
        /\ hChecks[i][2].kind = "fail"
        /\ ~hReport.statuses[i].available
        /\ hReport.statuses[i].response_time_ms = hChecks[i][1].latency

\* C24: get_database_status returns exactly one status per configured
\* provider whatever the health outcomes: a provider whose check fails or
\* raises is reported unavailable, and the others are reported all the same.
C24_OneStatusPerProvider ==
    hReport # None =>
        /\ Len(hReport.statuses) = Len(AvailableDatabases)
        /\ \A i \in 1..Len(AvailableDatabases) :
              /\ hReport.statuses[i].name = AvailableDatabases[i]
              /\ hReport.statuses[i].available = (LastCheck(i).kind = "ok")
              /\ LastCheck(i).kind # "ok" =>
                    hReport.statuses[i].error_message = LastCheck(i).error

\* The first provider's check raised, the second one's succeeded, and both
\* are in the report.
C24_Witness ==
    /\ hReport # None
    /\ LastCheck(1).kind = "raise"
    /\ LastCheck(2).kind = "ok"
    /\ Len(hReport.statuses) = 2
    /\ ~hReport.statuses[1].available
    /\ hReport.statuses[2].available

(***************************************************************************)
(* The process-wide instances                                              *)
(***************************************************************************)

MaxRequests == 4

\* A module global that is None; a request that did not use the object.
NoInstance == 0

Kinds == {"embedding", "reranker", "connector"}

\* The globals once the modules are imported: _embedding_client = None,
\* _reranker_instance = None, and federated_search_service =
\* FederatedSearchService(), whose __init__ constructs the ArxivConnector.
\* Instances are named by their number of construction.
ImportedGlobals == [embedding |-> NoInstance, reranker |-> NoInstance, connector |-> 1]
ImportedMade == [embedding |-> 0, reranker |-> 0, connector |-> 1]

\* get_embedding_client / get_cohere_reranker: the global if it is set,
\* else a new instance stored in the global; a constructor that raises
\* leaves the global None and no instance.
GetOrCreate(globals, made, kind, ctor_ok) ==
    IF globals[kind] # NoInstance
    THEN [globals |-> globals, made |-> made, inst |-> globals[kind]]
    ELSE IF ctor_ok
    THEN [globals |-> [globals EXCEPT ![kind] = made[kind] + 1],
          made |-> [made EXCEPT ![kind] = made[kind] + 1],
          inst |-> made[kind] + 1]
    ELSE [globals |-> globals, made |-> made, inst |-> NoInstance]

\* search_service = FederatedSearchService(): a new service with a new
\* connector, held by no global.
NewService(made) ==
    [made |-> [made EXCEPT !.connector = made.connector + 1],
     inst |-> made.connector + 1]

Used(kind, embedding, reranker, connector) ==
    [kind |-> kind, embedding |-> embedding, reranker |-> reranker,
     connector |-> connector]

SingleInit ==
    /\ EarlierIdle
    /\ ConnIdle
    /\ HealthIdle
    /\ EndpointIdle
    /\ iGlobals = ImportedGlobals
    /\ iMade = ImportedMade
    /\ iLog = <<>>

\* generate_openai_stream: the embedding client and a new search service for
\* every request; the reranker when the request is not a first message and
\* gets as far as the rerank step.
ChatCompletionRequest ==
    /\ Len(iLog) < MaxRequests
    /\ \E ctor_ok \in BOOLEAN, first \in BOOLEAN, reaches_rerank \in BOOLEAN :
          LET e == GetOrCreate(iGlobals, iMade, "embedding", ctor_ok)
              s == NewService(e.made)
              r == GetOrCreate(e.globals, s.made, "reranker", TRUE)
          IN  IF e.inst = NoInstance
              THEN /\ iGlobals' = e.globals
                   /\ iMade' = e.made
                   /\ iLog' = Append(iLog, Used("chat", NoInstance, NoInstance, NoInstance))
              ELSE IF first \/ ~reaches_rerank
              THEN /\ iGlobals' = e.globals
                   /\ iMade' = s.made
                   /\ iLog' = Append(iLog, Used("chat", e.inst, NoInstance, s.inst))
              ELSE /\ iGlobals' = r.globals
                   /\ iMade' = r.made
                   /\ iLog' = Append(iLog, Used("chat", e.inst, r.inst, s.inst))
    /\ UNCHANGED outsideSingle

\* POST /search: the module-level service and its connector.
FederatedSearchRequest ==
    /\ Len(iLog) < MaxRequests
    /\ iLog' = Append(iLog, Used("search", NoInstance, NoInstance, iGlobals.connector))
    /\ UNCHANGED <<iGlobals, iMade>>
    /\ UNCHANGED outsideSingle

SingleNext == ChatCompletionRequest \/ FederatedSearchRequest

SpecSingle == SingleInit /\ [][SingleNext]_vars

UsedBy(i, kind) == iLog[i][kind] # NoInstance

OnceAndReused(kind) ==
    /\ iMade[kind] <= 1
    /\ \A i, j \in 1..Len(iLog) :
          UsedBy(i, kind) /\ UsedBy(j, kind) => iLog[i][kind] = iLog[j][kind]

Lazily(kind) == iMade[kind] > 0 => \E i \in 1..Len(iLog) : UsedBy(i, kind)

\* C26: the embedding client, the reranker client and the provider's search
\* connector are each constructed at most once per process, lazily on first
\* use, and every later request reuses that instance.
C26_SingletonsConstructedOnceLazily ==
    \A kind \in Kinds : OnceAndReused(kind) /\ Lazily(kind)

\* What the code keeps: the embedding client and the reranker are lazy
\* singletons; every search request used a connector, the one of its own
\* service.
C26_ClientsAreLazySingletons ==
    /\ \A kind \in {"embedding", "reranker"} : OnceAndReused(kind) /\ Lazily(kind)
    /\ iMade.connector = 1 + Cardinality({i \in 1..Len(iLog) : iLog[i].kind = "chat"
                                               /\ UsedBy(i, "connector")})

\* Two chat requests that shared the embedding client and the reranker and
\* searched through two different connectors.
C26_ConnectorPerRequest ==
    /\ Len(iLog) >= 2
    /\ iLog[1].kind = "chat"
    /\ iLog[2].kind = "chat"
    /\ UsedBy(1, "reranker")
    /\ iLog[1].embedding = iLog[2].embedding
    /\ iLog[1].reranker = iLog[2].reranker
    /\ UsedBy(1, "connector")
    /\ UsedBy(2, "connector")
    /\ iLog[1].connector # iLog[2].connector

(***************************************************************************)
(* POST /search: the federated search endpoint                             *)
(***************************************************************************)

\* len(query.query) > 1000
MaxQueryChars == 1000

\* A query text by its shape: leading whitespace, a body that begins and
\* ends with a character that is not whitespace (or is empty), trailing
\* whitespace; each given by its number of characters.
QueryTexts ==
    [lead : {0, 1}, trail : {0, 1},
     body : {0, 1, MaxQueryChars - 1, MaxQueryChars, MaxQueryChars + 1}]

\* len(text)
TextLen(text) == text.lead + text.body + text.trail

\* text.strip(): the body alone.
TextStrip(text) == [lead |-> 0, body |-> text.body, trail |-> 0]

HTTPException(status, detail) == [status |-> status, detail |-> detail]

\* The endpoint validating nothing.
ValidateNothing(text) == None

\* The validation at the head of federated_search: the exception raised, or
\* None for a query that passes.
ValidateQuery(text) ==
    IF TextLen(TextStrip(text)) = 0
    THEN HTTPException(400, "Query cannot be empty")
    ELSE IF TextLen(text) > MaxQueryChars
    THEN HTTPException(400, "Query too long (max 1000 characters)")
    ELSE None

\* The requests of the model go to the one registered connector.
EndpointQueries == {q \in Queries : q.databases = <<"arxiv">>}

EndpointInit ==
    /\ DedupIdle
    /\ StoreIdle
    /\ StreamIdle
    /\ ConcIdle
    /\ RerankIdle
    /\ FoundIdle
    /\ ConnIdle
    /\ HealthIdle
    /\ SingleIdle
    /\ LimiterIdle
    /\ eReq \in QueryTexts
    /\ eResp = None
    /\ aq \in EndpointQueries
    /\ apc = "idle"
    /\ aExp = None
    /\ aTasks = <<>>
    /\ aInt = None
    /\ aResp = None
    /\ aOrder = <<>>

\* federated_search up to the call of the service: a query that fails the
\* validation is answered at once, any other is handed to search().
FederatedSearchValidate ==
    /\ eResp = None
    /\ apc = "idle"
    /\ IF ValidateQuery(eReq) # None
       THEN /\ eResp' = ValidateQuery(eReq)
            /\ apc' = apc
       ELSE /\ eResp' = eResp
            /\ apc' = "start"
    /\ UNCHANGED <<eReq, aq, aExp, aTasks, aInt, aResp, aOrder>>
    /\ UNCHANGED outsideEndpoint

\* search() has returned its response: the endpoint returns it.
FederatedSearchReturn ==
    /\ eResp = None
    /\ apc = "done"
    /\ eResp' = [status |-> 200, detail |-> ""]
    /\ UNCHANGED <<eReq, aggVars>>
    /\ UNCHANGED outsideEndpoint

EndpointNext ==
    \/ FederatedSearchValidate
    \/ AggStart
    \/ \E i \in 1..Len(aTasks) : TaskStep(i)
    \/ AggFinish
    \/ FederatedSearchReturn

SpecEndpoint == EndpointInit /\ [][EndpointNext]_vars

\* The query is blank, or longer than 1000 characters.
Blank == eReq.body = 0
TooLong == eReq.lead + eReq.body + eReq.trail > 1000

SearchInvoked == apc # "idle" \/ aTasks # <<>> \/ aResp # None

Answered == eResp # None

\* C27: the endpoint rejects a blank query and a query of more than 1000
\* characters with HTTP 400, and the Aggregator's search is not invoked for
\* either; any other query is answered only once the search has returned.
C27_BlankOrTooLongRejected ==
    /\ (Blank \/ TooLong) =>
          /\ ~SearchInvoked
          /\ Answered => eResp.status = 400
    /\ ~(Blank \/ TooLong) =>
          /\ Answered => eResp.status = 200 /\ apc = "done"

\* A query of 1001 characters, 1000 of them after strip(), was rejected
\* without a search.
C27_Witness ==
    /\ Answered
    /\ eResp.status = 400
    /\ ~Blank
    /\ eReq.body = 1000
    /\ eReq.lead = 1
    /\ ~SearchInvoked

\* A query of whitespace only was rejected as empty.
C27_WitnessBlank ==
    /\ Answered
    /\ eResp.status = 400
    /\ eResp.detail = "Query cannot be empty"
    /\ eReq.lead + eReq.trail > 0
    /\ ~SearchInvoked

(***************************************************************************)
(* A client that stops consuming the stream                                *)
(***************************************************************************)

\* The collection before the request's process_and_store_documents call: it
\* was empty or held the one chunk of the earlier document.
StoreBefore == IF sLog[1].before = 0 THEN <<>> ELSE ChunksOf(StoreDocs[2])

\* The chunks the request's call has to add.
ChunksToAdd ==
    NewDocs(SplitDocs(sLog[1].docs),
            IF sLog[1].lookup = "ok" THEN ExistingHashes(StoreBefore) ELSE {})

\* The collection holds all of the call's chunks or none of them.
AllOrNone ==
    IF sLog = <<>> THEN sStore \in {<<>>, ChunksOf(StoreDocs[2])}
    ELSE /\ Len(sLog) = 1
         /\ sLog[1].added \in {0, Len(ChunksToAdd)}
         /\ sStore = (IF sLog[1].deleted THEN <<>> ELSE StoreBefore)
                        \o (IF sLog[1].added = 0 THEN <<>> ELSE ChunksToAdd)

\* C29: when the client stops consuming at a frame boundary, no further
\* event is emitted, and the document store holds all or none of the chunks
\* the request's process_and_store_documents call adds.
C29_StopEmitsNothingStoreAllOrNone ==
    /\ Len(gFrames) <= gStopped.at
    /\ gStopped.done => Len(gFrames) = gStopped.at /\ gpc = "closed"
    /\ AllOrNone

\* The client stopped at the status event of the embedding step: documents
\* were waiting and the store was not called.
C29_Witness ==
    /\ gStopped.done
    /\ gUnique # <<>>
    /\ Entered("embed")
    /\ gStopped.at = At("embed")
    /\ sLog = <<>>

\* The client stopped after the store had taken the request's chunks.
C29_WitnessStored ==
    /\ gStopped.done
    /\ Len(sLog) = 1
    /\ sLog[1].added > 0
    /\ ~gEscaped

(***************************************************************************)
(* The search stage of the orchestrator                                    *)
(***************************************************************************)

\* The searches of this request fail: SearchQuery refuses its max_results.
SearchesFail ==
    ~ValidMaxResults(IF gReq.max_results = 0 THEN RagDatabaseCandidates
                     ELSE gReq.max_results)

\* The error events of the search loop among the frames.
SearchErrorEvents ==
    Cardinality({f \in 1..Len(gFrames) : gFrames[f] = Frame("error", "searching")})

\* The sub-queries searched so far.
SubQueriesSearched == gQueries.i - 1

TitleLower(p) == Strip(Lower(Library[p].title))

\* Where a title is first found in all_documents.
FirstWith(title_lower) ==
    CHOOSE i \in 1..Len(gAll) :
        /\ TitleLower(gAll[i]) = title_lower
        /\ \A j \in 1..(i - 1) : TitleLower(gAll[j]) # title_lower

\* C36: the unique documents handed to the document store hold no two
\* documents whose titles are equal after lower-casing and trimming and no
\* document with an empty title; each is the first document of its title in
\* search order, they are in search order, and every non-empty title found
\* is among them.
C36_UniqueByTitleFirstKept ==
    Entered("dedup") =>
        /\ \A i, j \in 1..Len(gUnique) :
              i # j => TitleLower(gUnique[i]) # TitleLower(gUnique[j])
        /\ \A i \in 1..Len(gUnique) :
              /\ TitleLower(gUnique[i]) # <<>>
              /\ \E a \in 1..Len(gAll) : TitleLower(gAll[a]) = TitleLower(gUnique[i])
              /\ gUnique[i] = gAll[FirstWith(TitleLower(gUnique[i]))]
        /\ \A i, j \in 1..Len(gUnique) :
              i < j => FirstWith(TitleLower(gUnique[i])) < FirstWith(TitleLower(gUnique[j]))
        /\ \A a \in 1..Len(gAll) :
              TitleLower(gAll[a]) # <<>> =>
                  \E i \in 1..Len(gUnique) : TitleLower(gUnique[i]) = TitleLower(gAll[a])
        /\ \A c \in 1..Len(sLog) : sLog[c].docs = AsDocs(gUnique)

\* Four documents were found: "Deep Nets" twice, a blank title and
\* " Deep Nets "; the first alone was handed to the store.
C36_Witness ==
    /\ gAll = <<1, 8, 10, 11>>
    /\ gUnique = <<1>>
    /\ Len(sLog) = 1

\* The blank title came first: " Deep Nets " is kept, "Deep Nets" is not.
C36_WitnessBlankFirst ==
    /\ gAll = <<10, 11, 1, 8>>
    /\ gUnique = <<11>>
    /\ Len(sLog) = 1

(***************************************************************************)
(* similarity_search: size and failure                                     *)
(***************************************************************************)

\* C37: similarity_search returns at most k documents and never raises:
\* when the vector store or the embedding call fails it returns the empty
\* list, and it leaves the collection as it found it.
C37_AtMostKEmptyOnFailure ==
    sFound # None =>
        /\ Len(sFound.results) <= sFound.k
        /\ ~sFound.ok => sFound.results = <<>>
        /\ sFound.left = sFound.store

\* A search with k = 1 on a collection of several chunks returned one chunk.
C37_Witness ==
    /\ sFound # None
    /\ sFound.ok
    /\ sFound.k = 1
    /\ Len(sFound.store) > 1
    /\ Len(sFound.results) = 1

\* The vector store raised on a collection that holds chunks: the search
\* returned [] and the collection is as it was.
C37_WitnessFailure ==
    /\ sFound # None
    /\ ~sFound.ok
    /\ sFound.store # <<>>
    /\ sFound.results = <<>>
    /\ sFound.left = sFound.store

(***************************************************************************)
(* TokenBucketRateLimiter                                                  *)
(***************************************************************************)

\* Time is read in whole seconds.  rate_per_second = rate_per_minute / 60.0:
\* a token is kept as 60 units, so that one second adds rate_per_minute units.
TokenUnits == 60

\* asyncio.sleep(min(wait_time, 1.0)), in seconds
SleepCap == 1

\* The callers of the limiter, the calls each makes, and the time up to
\* which calls are started.
MaxCallers == 2
MaxLimiterCalls == 2
MaxTime == 2

\* TokenBucketRateLimiter(rate_per_minute, bucket_size): rate 0 disables the
\* limiter; bucket 0 is bucket_size=None.
LimiterConfigs ==
    {[rate |-> 0, bucket |-> 0], [rate |-> 60, bucket |-> 1],
     [rate |-> 20, bucket |-> 2], [rate |-> 60, bucket |-> 0]}

\* self.enabled = rate_per_minute > 0
LimiterEnabled(cfg) == cfg.rate > 0

\* self.bucket_size = bucket_size or max(1, int(rate_per_minute))
BucketSize(cfg) == IF cfg.bucket # 0 THEN cfg.bucket ELSE Max(1, cfg.rate)

\* __init__: self.tokens = self.bucket_size; self.last_refill = time.time()
NewLimiter(cfg, now) == [tokens |-> BucketSize(cfg) * TokenUnits, last_refill |-> now]

\* A refill that adds nothing.
NoTokensToAdd(elapsed, rate) == 0

\* tokens_to_add = elapsed * self.rate_per_second, in units
TokensToAdd(elapsed, rate) == elapsed * rate

\* acquire() that allows the request whatever the bucket holds.
AcquireTokensUnchecked(lim, cfg, now) ==
    LET refilled == Min(BucketSize(cfg) * TokenUnits,
                        lim.tokens + TokensToAdd(now - lim.last_refill, cfg.rate))
    IN  [tokens |-> refilled - TokenUnits, last_refill |-> now,
         refilled |-> refilled, granted |-> TRUE]

\* acquire() of an enabled limiter, under self.lock: the refill, then a token
\* is consumed if there is one.
AcquireTokens(lim, cfg, now) ==
    LET refilled == Min(BucketSize(cfg) * TokenUnits,
                        lim.tokens + TokensToAdd(now - lim.last_refill, cfg.rate))
    IN  IF refilled >= TokenUnits
        THEN [tokens |-> refilled - TokenUnits, last_refill |-> now,
              refilled |-> refilled, granted |-> TRUE]
        ELSE [tokens |-> refilled, last_refill |-> now,
              refilled |-> refilled, granted |-> FALSE]

\* wait_time = (1 - self.tokens) / self.rate_per_second, rounded up to whole
\* seconds; asyncio.sleep returns at once for a delay of 0 or less.
WaitTime(tokens, rate) ==
    IF tokens >= TokenUnits THEN 0
    ELSE (TokenUnits - tokens + rate - 1) \div rate

\* The seconds a bucket needs to make one token of nothing.
RefillTime(cfg) == WaitTime(0, cfg.rate)

\* A caller: idle, or in wait_for_token ("trying" before acquire(), "refused"
\* after it returned False, "sleeping" in asyncio.sleep until `wake`); slept
\* is 1 once its last wait_for_token call has slept.
NewCaller ==
    [pc |-> "idle", wake |-> 0, since |-> 0, calls |-> 0, allowed |-> 0,
     waits |-> 0, got |-> 0, returns |-> 0, slept |-> 0]

InWait(c) == lCallers[c].pc \in {"trying", "refused", "sleeping"}

LimiterInit ==
    /\ DedupIdle /\ AggIdle /\ StoreIdle /\ StreamIdle /\ ConcIdle /\ RerankIdle /\ FoundIdle
    /\ ConnIdle /\ HealthIdle /\ SingleIdle /\ EndpointIdle
    /\ lCfg \in LimiterConfigs
    /\ lLim = NewLimiter(lCfg, 0)
    /\ lNow = 0
    /\ lCallers = [c \in 1..MaxCallers |-> NewCaller]
    /\ lAdded = 0

\* The same limiters with one caller.
WaiterInit ==
    /\ DedupIdle /\ AggIdle /\ StoreIdle /\ StreamIdle /\ ConcIdle /\ RerankIdle /\ FoundIdle
    /\ ConnIdle /\ HealthIdle /\ SingleIdle /\ EndpointIdle
    /\ lCfg \in LimiterConfigs
    /\ lLim = NewLimiter(lCfg, 0)
    /\ lNow = 0
    /\ lCallers = [c \in 1..1 |-> NewCaller]
    /\ lAdded = 0

\* A second passes.  Time is followed up to MaxTime, and beyond it for as
\* long as a caller that waits may need for the bucket to make a token and
\* for its last sleep to end.
Tick ==
    /\ \/ lNow < MaxTime
       \/ \E c \in DOMAIN lCallers :
             /\ InWait(c)
             /\ \/ lNow < lCallers[c].since + RefillTime(lCfg)
                \/ /\ lCallers[c].pc = "sleeping"
                   /\ lNow < lCallers[c].wake
                   /\ lNow < Max(MaxTime, lCallers[c].since + RefillTime(lCfg)) + SleepCap
    /\ lNow' = lNow + 1
    /\ UNCHANGED <<lCfg, lLim, lCallers, lAdded>>
    /\ UNCHANGED outsideLimiter

\* The limiter after one acquire() by caller c, and whether it was allowed.
Acquired(c, r, pc) ==
    /\ lLim' = [tokens |-> r.tokens, last_refill |-> r.last_refill]
    /\ lAdded' = lAdded + (r.refilled - lLim.tokens)
    /\ lCallers' = [lCallers EXCEPT
            ![c].pc = pc,
            ![c].allowed = @ + (IF r.granted THEN 1 ELSE 0),
            ![c].got = @ + (IF r.granted /\ lCallers[c].pc = "trying" THEN 1 ELSE 0),
            ![c].returns = @ + (IF r.granted /\ lCallers[c].pc = "trying" THEN 1 ELSE 0),
            ![c].calls = @ + (IF lCallers[c].pc = "idle" THEN 1 ELSE 0)]

\* Caller c calls acquire() and goes on with the answer.
Acquire(c) ==
    /\ lCallers[c].pc = "idle"
    /\ lCallers[c].calls < MaxLimiterCalls
    /\ IF ~LimiterEnabled(lCfg)
       THEN /\ lCallers' = [lCallers EXCEPT ![c].calls = @ + 1]
            /\ UNCHANGED <<lLim, lAdded>>
       ELSE Acquired(c, AcquireTokens(lLim, lCfg, lNow), "idle")
    /\ UNCHANGED <<lCfg, lNow>>
    /\ UNCHANGED outsideLimiter

\* Caller c calls wait_for_token(): a disabled limiter returns at once.
WaitForToken(c) ==
    /\ lCallers[c].pc = "idle"
    /\ lCallers[c].calls < MaxLimiterCalls
    /\ lCallers' = [lCallers EXCEPT
            ![c].calls = @ + 1,
            ![c].waits = @ + 1,
            ![c].slept = 0,
            ![c].since = lNow,
            ![c].returns = @ + (IF LimiterEnabled(lCfg) THEN 0 ELSE 1),
            ![c].pc = IF LimiterEnabled(lCfg) THEN "trying" ELSE "idle"]
    /\ UNCHANGED <<lCfg, lLim, lNow, lAdded>>
    /\ UNCHANGED outsideLimiter

\* if await self.acquire(): return
WaitAcquire(c) ==
    /\ lCallers[c].pc = "trying"
    /\ LET r == AcquireTokens(lLim, lCfg, lNow)
       IN  Acquired(c, r, IF r.granted THEN "idle" ELSE "refused")
    /\ UNCHANGED <<lCfg, lNow>>
    /\ UNCHANGED outsideLimiter

\* The wait time is read under the lock and the sleep begins.
WaitSleep(c) ==
    /\ lCallers[c].pc = "refused"
    /\ lCallers' = [lCallers EXCEPT
            ![c].pc = "sleeping",
            ![c].slept = 1,
            ![c].wake = lNow + Min(WaitTime(lLim.tokens, lCfg.rate), SleepCap)]
    /\ UNCHANGED <<lCfg, lLim, lNow, lAdded>>
    /\ UNCHANGED outsideLimiter

\* asyncio.sleep returns, not before its delay has passed.
WaitWake(c) ==
    /\ lCallers[c].pc = "sleeping"
    /\ lNow >= lCallers[c].wake
    /\ lCallers' = [lCallers EXCEPT ![c].pc = "trying"]
    /\ UNCHANGED <<lCfg, lLim, lNow, lAdded>>
    /\ UNCHANGED outsideLimiter

LimiterNext ==
    \/ Tick
    \/ \E c \in DOMAIN lCallers : Acquire(c)
    \/ \E c \in DOMAIN lCallers : WaitForToken(c)
    \/ \E c \in DOMAIN lCallers : WaitAcquire(c)
    \/ \E c \in DOMAIN lCallers : WaitSleep(c)
    \/ \E c \in DOMAIN lCallers : WaitWake(c)

SpecLimiter == LimiterInit /\ [][LimiterNext]_vars

\* One waiter: time passes, and the event loop runs a coroutine that can run.
SpecWaiter ==
    /\ WaiterInit
    /\ [][LimiterNext]_vars
    /\ WF_vars(Tick)
    /\ WF_vars(WaitAcquire(1))
    /\ WF_vars(WaitSleep(1))
    /\ WF_vars(WaitWake(1))

\* The requests the limiter has allowed to the callers 1..n.
RECURSIVE AllowedTo(_)
AllowedTo(n) == IF n = 0 THEN 0 ELSE AllowedTo(n - 1) + lCallers[n].allowed

\* C38: for an enabled limiter, whatever acquire and wait_for_token calls the
\* concurrent callers have made, the token count is never below 0 and never
\* above bucket_size, and every allowed request removed exactly one token
\* that no other caller was granted: the tokens left are the bucket's first
\* filling plus what the refills added minus one token for each allowed
\* request, and the refills never added more than the rate gives.
C38_TokensWithinBucketOnePerGrant ==
    (lCfg # None /\ LimiterEnabled(lCfg)) =>
        /\ lLim.tokens >= 0
        /\ lLim.tokens <= BucketSize(lCfg) * TokenUnits
        /\ lLim.tokens = BucketSize(lCfg) * TokenUnits + lAdded
                         - TokenUnits * AllowedTo(Len(lCallers))
        /\ lAdded >= 0
        /\ lAdded <= lNow * lCfg.rate

\* The bucket of two tokens is empty, each caller was allowed one request,
\* one of them waits after a refusal, and refills have added tokens.
C38_Witness ==
    /\ lCfg = [rate |-> 20, bucket |-> 2]
    /\ lCallers[1].allowed >= 1
    /\ lCallers[2].allowed >= 1
    /\ \E c \in DOMAIN lCallers : lCallers[c].pc = "sleeping"
    /\ lAdded > 0
    /\ lLim.tokens < TokenUnits

\* wait_for_token returns only with a token acquired for the caller.
ReturnsOnlyWithToken ==
    \A c \in DOMAIN lCallers :
        IF LimiterEnabled(lCfg)
        THEN /\ lCallers[c].returns = lCallers[c].got
             /\ lCallers[c].got <= lCallers[c].allowed
             /\ lCallers[c].waits = lCallers[c].returns + (IF InWait(c) THEN 1 ELSE 0)
        ELSE /\ lCallers[c].returns = lCallers[c].waits
             /\ ~InWait(c)
             /\ lCallers[c].slept = 0

\* C39: wait_for_token returns only after a token was acquired for the
\* caller; with rate limiting disabled (rate 0) it returns immediately, and
\* with a positive rate a single waiter's call eventually returns as time
\* advances.
C39_WaitReturnsWithToken ==
    /\ []ReturnsOnlyWithToken
    /\ (InWait(1) ~> ~InWait(1))

\* The one caller's second wait_for_token call slept and then returned with
\* its token.
C39_Witness ==
    /\ Len(lCallers) = 1
    /\ LimiterEnabled(lCfg)
    /\ lCallers[1].pc = "idle"
    /\ lCallers[1].returns = 2
    /\ lCallers[1].got = 2
    /\ lCallers[1].slept > 0

\* A disabled limiter: wait_for_token returned without a sleep.
C39_WitnessDisabled ==
    /\ Len(lCallers) = 1
    /\ ~LimiterEnabled(lCfg)
    /\ lCallers[1].returns = 1
    /\ lCallers[1].slept = 0

====
